---- MODULE Spec2Model ----
(***************************************************************************)
(* parConnect: distributed connected components.                           *)
(*   - coloring engine      (coloring/labelProp.hpp, class ccl)            *)
(*   - vertex id compaction (graphGen/common/reduceIds.hpp)                *)
(*   - BFS peeler           (bfs/bfsRunner.hpp, class bfsSupport)          *)
(*   - driver               (test/benchmark_parconnect_auto.cpp)           *)
(* The execution is bulk-synchronous: one action is one collective phase   *)
(* taken by all ranks of the communicator.  A distributed vector is a      *)
(* sequence (one entry per rank, rank r is index r+1) of local sequences.  *)
(***************************************************************************)
EXTENDS Integers, Sequences, FiniteSets, TLC

(***************************************************************************)
(* Bounds of the model.                                                    *)
(***************************************************************************)
MaxVertex == 4        \* vertex ids of the input graphs are 0 .. MaxVertex-1
MaxEdges == 4         \* undirected edges of an input graph
MaxRanks == 3         \* communicator sizes 1 .. MaxRanks of the engine
MaxIter == 5          \* rounds of the coloring loop that are followed
MaxBfsVertex == 5     \* vertex ids of the graphs of the BFS runs are 0 .. MaxBfsVertex-1
MaxGrid == 2          \* processor grids of side 1 .. MaxGrid
MaxIterations == 3    \* noIterations of runBFSIterations is 1 .. MaxIterations
MaxScaleLen == 2      \* the value of --scale has 1 .. MaxScaleLen characters
MaxKey == 9           \* hash_64 is applied to the ids 0 .. MaxKey and to CollidingKey

(***************************************************************************)
(* Program constants.  The sentinels are the largest values of the id      *)
(* type; the model's id type is 0 .. MAX_PID.                              *)
(***************************************************************************)
MAX_PID == 9
MAX_PID2 == MAX_PID - 1
MAX_NID == MAX_PID
\* std::size_t of the model has SizeBits bits: its values are 0 .. 2^SizeBits - 1
SizeBits == 3
\* bfsSupport::MAX, numeric_limits<E>::max()
MAX == 9

\* cclTupleIds: layers of the tuple <<Pc, Pn, nId>>
Pc == 1
Pn == 2
nId == 3
\* edgeListTIds: layers of the edge <<src, dst>>
src == 1
dst == 2
\* lever
OFF == 0
ON == 1
\* opt_level
naive == 0
stable_partition_removed == 1
loadbalanced == 2

VARIABLES
  pc,                        \* control point of the program
  inputEdges,                \* the edge bag handed to the program (never changed)
  edgeList,                  \* distributed edge list
  DOUBLING, OPTIMIZATION,    \* template parameters of ccl
  tupleVector,               \* ccl::tupleVector on every rank
  distance_begin_mid,        \* per rank: length of the stable prefix
  parentRequestTupleVector,  \* per rank: the 'parentRequest' tuples of the round
  converged,                 \* value returned by updatePc, on every rank
  iterCount,                 \* rounds executed
  componentCount,            \* result of computeComponentCount (-1: not computed)
  cclComm,                   \* the ranks of the communicator given to ccl
  uniqueVertexList,          \* reduceVertexIds: distributed array of original ids
  origin,                    \* per edge of edgeList, the ids it had before reduceVertexIds
  A,                         \* bfsSupport: adjacency matrix, the set of its non-zeros <<row, col>>
  vertexCount,               \* bfsSupport: A.getncol()
  localDistVecSize,          \* bfsSupport: per rank, size of the local part of a vector
  unVisitedVertices,         \* bfsSupport: per rank, the set of local ids not visited
  noIterations,              \* runBFSIterations: the bound on the iterations
  iteration,                 \* runBFSIterations: the loop variable i
  srcPoint,                  \* runBFSIterations: the source of the last iteration
  countComponentSizes,       \* runBFSIterations: the output vector
  noBFSIterationsExecuted,   \* the value runBFSIterations returned
  runBFS,                    \* driver: outcome of runBFSDecision
  statisticVal,              \* runBFSDecision: D of fitCurve on rank 0, in hundredths (-1: none)
  gbDecision,                \* runBFSDecision: per rank, the result of the allreduce
  globalDegreeCounts,        \* runBFSDecision: on rank 0, the reduced degree counts, each + 1
  cmd,                       \* main: the options of the command line
  exitStatus,                \* main: the exit status of the process (-1: running)
  nVertices,                 \* driver: global size of uniqueVertexList
  countComponents            \* driver: the reported count (-1: not reported)

cclVars == <<DOUBLING, OPTIMIZATION, tupleVector, distance_begin_mid,
             parentRequestTupleVector, converged, iterCount, componentCount>>
reduceVars == <<uniqueVertexList, origin>>
bfsVars == <<A, vertexCount, localDistVecSize, unVisitedVertices, noIterations,
             iteration, srcPoint, countComponentSizes, noBFSIterationsExecuted>>
decisionVars == <<statisticVal, gbDecision, globalDegreeCounts>>
mainVars == <<cmd, exitStatus>>
driverVars == <<runBFS, nVertices, countComponents, decisionVars, mainVars>>
otherVars == <<cclComm, reduceVars, bfsVars, driverVars>>

(***************************************************************************)
(* Sequences.                                                              *)
(***************************************************************************)
\* the function f of domain 1..n as a sequence
AsSeq(f) == <<>> \o f

\* F applied to the value of x
With(x, F(_)) == CHOOSE y \in {F(v) : v \in {x}} : TRUE

\* f folded from the left over the non-empty sequence s
FoldLeft(f(_, _), s) ==
  LET R[i \in 1..Len(s)] ==
        IF i = 1 THEN s[1] ELSE With(R[i - 1], LAMBDA acc : f(acc, s[i]))
  IN  R[Len(s)]

Front(s) == SubSeq(s, 1, Len(s) - 1)
Last(s) == s[Len(s)]

RECURSIVE Concat(_)
Concat(ss) == IF ss = <<>> THEN <<>> ELSE Head(ss) \o Concat(Tail(ss))

RECURSIVE SumSeq(_)
SumSeq(s) == IF s = <<>> THEN 0 ELSE Head(s) + SumSeq(Tail(s))

Sizes(ss) == AsSeq([i \in DOMAIN ss |-> Len(ss[i])])

\* Cut the sequence s into consecutive pieces of the given sizes.
Split(s, sizes) ==
  AsSeq([i \in DOMAIN sizes |->
     LET before == SumSeq(SubSeq(sizes, 1, i - 1))
     IN  SubSeq(s, before + 1, before + sizes[i])])

SelectIdx(s, Test(_)) ==
  LET F[i \in 0..Len(s)] ==
        IF i = 0 THEN <<>>
        ELSE IF Test(s[i]) THEN Append(F[i-1], s[i]) ELSE F[i-1]
  IN  F[Len(s)]

\* the elements of a finite set of integers in ascending order
RECURSIVE SetToSeq(_)
SetToSeq(S) ==
  IF S = {} THEN <<>>
  ELSE LET m == CHOOSE x \in S : \A y \in S : x <= y
       IN  <<m>> \o SetToSeq(S \ {m})

Min(S) == CHOOSE x \in S : \A y \in S : x <= y
Max(S) == CHOOSE x \in S : \A y \in S : x >= y

(***************************************************************************)
(* utils/commonfuncs.hpp: comparators and reducers on tuples.              *)
(* op is "less" (std::less) or "greater" (std::greater).                   *)
(***************************************************************************)
Op(op, a, b) == IF op = "less" THEN a < b ELSE a > b

TpleComp(t1, t2, layer, op) == Op(op, t1[layer], t2[layer])

TpleComp2Layers(t1, t2, layer1, layer2, op1, op2) ==
  \/ Op(op1, t1[layer1], t2[layer1])
  \/ /\ t1[layer1] = t2[layer1]
     /\ Op(op2, t1[layer2], t2[layer2])

TpleReduce(t1, t2, layer, op) ==
  IF TpleComp(t1, t2, layer, op) THEN t1 ELSE t2

\* the reduction by the second layer alone, whatever the first layers are
TpleReduceLayer2Only(t1, t2, layer1, layer2, op1, op2) ==
  IF Op(op2, t1[layer2], t2[layer2]) THEN t1 ELSE t2

TpleReduce2Layers(t1, t2, layer1, layer2, op1, op2) ==
  IF TpleComp2Layers(t1, t2, layer1, layer2, op1, op2) THEN t1 ELSE t2

\* findRange(it, end, *it, TpleComp<layer>): the first position after `it`
\* whose layer differs from that of s[it] (Len(s)+1 when there is none).
RECURSIVE findRangeSecond(_, _, _)
findRangeSecond(s, it, layer) ==
  IF it = Len(s) \/ s[it + 1][layer] # s[it][layer] THEN it + 1
  ELSE findRangeSecond(s, it + 1, layer)

\* The bucket loops "for(it = begin; it != end; it = equalRange.second)"
\* visit the maximal runs of equal layer; the run that holds position j
\* starts here.
RECURSIVE findRangeFirst(_, _, _)
findRangeFirst(s, j, layer) ==
  IF j = 1 \/ s[j - 1][layer] # s[j][layer] THEN j
  ELSE findRangeFirst(s, j - 1, layer)

(***************************************************************************)
(* The collectives of the mxx library, as their callers use them.          *)
(***************************************************************************)
\* The order a sort leaves elements in is fixed by the comparator's layers
\* (keyLayers) only; elements that compare equal may come out in any order.
\* tb picks that order: by the other layers ascending or descending.
TieBreaks == {"asc", "desc"}

RECURSIVE SortCode(_, _, _, _)
SortCode(t, keyLayers, tieLayers, tb) ==
  IF keyLayers # <<>>
  THEN t[Head(keyLayers)] * ((MAX_PID + 1) ^ (Len(keyLayers) + Len(tieLayers) - 1))
       + SortCode(t, Tail(keyLayers), tieLayers, tb)
  ELSE IF tieLayers # <<>>
  THEN (IF tb = "asc" THEN t[Head(tieLayers)] ELSE MAX_PID - t[Head(tieLayers)])
         * ((MAX_PID + 1) ^ (Len(tieLayers) - 1))
       + SortCode(t, <<>>, Tail(tieLayers), tb)
  ELSE 0

\* the elements of s in ascending order of their codes c; rank[i] is the
\* number of elements that come before s[i]
SortByRank(s, rank) ==
  AsSeq([pos \in DOMAIN s |-> s[CHOOSE i \in DOMAIN s : rank[i] = pos - 1]])

SortByCode(s, c) ==
  With(AsSeq([i \in DOMAIN s |->
                Cardinality({j \in DOMAIN s : c[j] < c[i] \/ (c[j] = c[i] /\ j < i)})]),
       LAMBDA rank : SortByRank(s, rank))

LocalSort(s, keyLayers, tieLayers, tb) ==
  With(AsSeq([i \in DOMAIN s |-> SortCode(s[i], keyLayers, tieLayers, tb)]),
       LAMBDA c : SortByCode(s, c))

\* mxx::sort(begin, end, comp, comm): sorts the distributed range globally;
\* every rank keeps the number of elements it had.
mxx_sort(v, keyLayers, tieLayers, tb) ==
  With(v, LAMBDA w :
    With(Concat(w), LAMBDA all :
      With(LocalSort(all, keyLayers, tieLayers, tb), LAMBDA sorted :
        With(Sizes(w), LAMBDA sizes : Split(sorted, sizes)))))

\* mxx::is_sorted(begin, end, TpleComp<layer>, comm)
mxx_is_sorted(v, layer) ==
  With(Concat(v), LAMBDA all :
    \A j \in 1..(Len(all) - 1) : ~TpleComp(all[j + 1], all[j], layer, "less"))

\* mxx::partition::block_decomposition: local size of rank r (0-based) of p
blk_local_size(n, p, r) == (n \div p) + (IF r < n % p THEN 1 ELSE 0)

\* Redistribution by surplus pairing: a rank above its target size sends its
\* last elements, a rank below it appends what it receives; the senders'
\* elements are handed out in rank order.
RedistributeSent(v, target) ==
  Concat(AsSeq([i \in DOMAIN v |->
                  IF Len(v[i]) > target[i]
                  THEN SubSeq(v[i], target[i] + 1, Len(v[i])) ELSE <<>>]))

RedistributeKept(v, target) ==
  AsSeq([i \in DOMAIN v |->
           IF Len(v[i]) > target[i] THEN SubSeq(v[i], 1, target[i]) ELSE v[i]])

Redistribute(v, target) ==
  With(RedistributeKept(v, target), LAMBDA keep :
    With(RedistributeSent(v, target), LAMBDA sent :
      With(AsSeq([i \in DOMAIN v |-> target[i] - Len(keep[i])]), LAMBDA need :
        With(Split(sent, need), LAMBDA got :
          AsSeq([i \in DOMAIN v |-> keep[i] \o got[i]])))))

\* mxx::stable_distribute_inplace(vec, comm): block decomposition that keeps
\* the global order of the elements
mxx_stable_distribute_inplace(v) ==
  With(v, LAMBDA w :
    With(SumSeq(Sizes(w)), LAMBDA n :
      Split(Concat(w), AsSeq([i \in DOMAIN w |-> blk_local_size(n, Len(w), i - 1)]))))

\* mxx::distribute_inplace(vec, comm): block decomposition of the vector
mxx_distribute_inplace(v) ==
  With(v, LAMBDA w :
    With(SumSeq(Sizes(w)), LAMBDA n :
      With(AsSeq([i \in DOMAIN w |-> blk_local_size(n, Len(w), i - 1)]),
           LAMBDA target : Redistribute(w, target))))

\* mxx::block_decompose_partitions(begin, mid, end, comm): the left
\* partitions [begin, mid) become a block decomposition, every rank keeps
\* its number of elements, the right partitions take the remaining room.
\* Returns, per rank, <<new left, new right>>.
mxx_block_decompose_partitions(left, right) ==
  With(SumSeq(Sizes(left)), LAMBDA L :
    With(AsSeq([i \in DOMAIN left |-> blk_local_size(L, Len(left), i - 1)]), LAMBDA tl :
      With(AsSeq([i \in DOMAIN left |-> Len(left[i]) + Len(right[i]) - tl[i]]), LAMBDA tr :
        With(Redistribute(left, tl), LAMBDA nl :
          With(Redistribute(right, tr), LAMBDA nr :
            AsSeq([i \in DOMAIN left |-> <<nl[i], nr[i]>>]))))))

\* comm.with_subset(cond, f): the ranks (indices) that take part
Subset(cond) == SelectIdx(AsSeq([i \in DOMAIN cond |-> i]), LAMBDA i : cond[i])

\* position of rank index i in the subset (1-based), the subset's com.rank()+1
Place(sub, i) == CHOOSE k \in DOMAIN sub : sub[k] = i

\* every rank keeps the value it gave: nothing is exchanged
mxx_allreduce_local(values) == values

\* mxx::allreduce(&in, 1, &out, mxx::min<uint8_t>(), comm): on every rank
\* the minimum of the values of all ranks
mxx_allreduce_min(values) ==
  AsSeq([r \in DOMAIN values |-> Min({values[q] : q \in DOMAIN values})])

\* mxx::local_reduce(begin, end, f): f folded from the left
local_reduce2(s, layer1, layer2, op1, op2) ==
  With(s, LAMBDA x :
    FoldLeft(LAMBDA a, b : TpleReduce2Layers(a, b, layer1, layer2, op1, op2), x))

local_reduce1(s, layer, op) ==
  With(s, LAMBDA x : FoldLeft(LAMBDA a, b : TpleReduce(a, b, layer, op), x))

\* only the x of the rank before, nothing of the ranks before that one
exscan2_previous(xs, k, layer1, layer2, op1, op2) == xs[k - 1]

\* mxx::exscan(x, f, com) on the k-th rank of com, k > 1: x of the ranks
\* before it, reduced in rank order.  xs is the sequence of the ranks' x.
exscan2(xs, k, layer1, layer2, op1, op2) ==
  local_reduce2(SubSeq(xs, 1, k - 1), layer1, layer2, op1, op2)

\* the same over com.reverse(): x of the ranks after it, reduced from the
\* last rank down.
Reverse(s) == AsSeq([i \in 1..Len(s) |-> s[Len(s) + 1 - i]])

exscan2_reverse(xs, k, layer1, layer2, op1, op2) ==
  local_reduce2(Reverse(SubSeq(xs, k + 1, Len(xs))), layer1, layer2, op1, op2)

(***************************************************************************)
(* coloring/labelProp.hpp: class ccl.                                      *)
(***************************************************************************)
\* the active tuples [begin + distance_begin_mid, end) and the stable prefix
Join(a, b) == AsSeq([i \in DOMAIN a |-> a[i] \o b[i]])
Active(tv, dbm) == AsSeq([i \in DOMAIN tv |-> SubSeq(tv[i], dbm[i] + 1, Len(tv[i]))])
Prefix(tv, dbm) == AsSeq([i \in DOMAIN tv |-> SubSeq(tv[i], 1, dbm[i])])

\* with_subset(begin != end, ...): the ranks with a non-empty range
NonEmpty(v) == Subset(AsSeq([i \in DOMAIN v |-> v[i] # <<>>]))

\* the local vectors of the ranks of a subset, and their way back
Pick(v, sub) == AsSeq([k \in DOMAIN sub |-> v[sub[k]]])
PutBack(v, sub, w) ==
  With(w, LAMBDA x :
    AsSeq([i \in DOMAIN v |->
             IF \E k \in DOMAIN sub : sub[k] = i THEN x[Place(sub, i)] ELSE v[i]]))

\* convertEdgeListforCCL: tuple (u, MAX_PID, v) for the edge (u, v)
convertEdgeListforCCL(el) ==
  AsSeq([i \in DOMAIN el |-> AsSeq([j \in DOMAIN el[i] |-> <<el[i][j][src], MAX_PID, el[i][j][dst]>>])])

\* updatePn, the body run by the ranks of the subset on their sorted ranges:
\* the new local range of the k-th rank of the subset.
updatePnLocal(sorted, k) ==
  LET s == sorted[k]
      minPcOfLastBucket ==
        AsSeq([r \in DOMAIN sorted |-> local_reduce2(sorted[r], nId, Pc, "greater", "less")])
      maxPcOfFirstBucket ==
        AsSeq([r \in DOMAIN sorted |-> local_reduce2(sorted[r], nId, Pc, "less", "greater")])
      NewPn(j) ==
        LET first == findRangeFirst(s, j, nId)
            second == findRangeSecond(s, first, nId)
            bucket == SubSeq(s, first, second - 1)
            thisBucketsMinPcLocal == local_reduce1(bucket, Pc, "less")
            thisBucketsMaxPcLocal == local_reduce1(bucket, Pc, "greater")
            thisBucketsMinPcGlobal ==
              IF first = 1 /\ k # 1
              THEN TpleReduce2Layers(exscan2(minPcOfLastBucket, k, nId, Pc, "greater", "less"),
                                     thisBucketsMinPcLocal, nId, Pc, "greater", "less")
              ELSE thisBucketsMinPcLocal
            thisBucketsMaxPcGlobal ==
              IF second = Len(s) + 1 /\ k # Len(sorted)
              THEN TpleReduce2Layers(exscan2_reverse(maxPcOfFirstBucket, k, nId, Pc, "less", "greater"),
                                     thisBucketsMaxPcLocal, nId, Pc, "less", "greater")
              ELSE thisBucketsMaxPcLocal
            maxPcValue == thisBucketsMaxPcGlobal[Pc]
            minPcValue == IF thisBucketsMinPcGlobal[Pc] < s[first][nId]
                          THEN thisBucketsMinPcGlobal[Pc] ELSE s[first][nId]
        IN  IF minPcValue < maxPcValue THEN minPcValue ELSE MAX_PID2
  IN  AsSeq([j \in DOMAIN s |-> <<s[j][Pc], NewPn(j), s[j][nId]>>])

\* updatePn(begin, end): the active ranges after the call.  The ranks with
\* a non-empty range sort by (nId, Pc) and run the bucket loop.
updatePn(act, tb) ==
  With(NonEmpty(act), LAMBDA sub :
    With(mxx_sort(Pick(act, sub), <<nId, Pc>>, <<Pn>>, tb), LAMBDA sorted :
      PutBack(act, sub, AsSeq([k \in DOMAIN sub |-> updatePnLocal(sorted, k)]))))

\* the minimum Pn of the local part of the bucket, without the exscan over
\* the ranks before
thisBucketsMinPnOfThisRank(sorted, k, j) ==
  LET s == sorted[k]
      first == findRangeFirst(s, j, Pc)
      second == findRangeSecond(s, first, Pc)
  IN  local_reduce1(SubSeq(s, first, second - 1), Pn, "less")

\* updatePc, the bucket loop of the k-th rank of the subset.  For position j:
\* the minimum Pn of its Pc bucket, as this rank knows it.
thisBucketsMinPnGlobal(sorted, k, j) ==
  LET s == sorted[k]
      minPnOfLastBucket ==
        AsSeq([r \in DOMAIN sorted |-> local_reduce2(sorted[r], Pc, Pn, "greater", "less")])
      first == findRangeFirst(s, j, Pc)
      second == findRangeSecond(s, first, Pc)
      thisBucketsMinPnLocal == local_reduce1(SubSeq(s, first, second - 1), Pn, "less")
  IN  IF first = 1 /\ k # 1
      THEN TpleReduce2Layers(exscan2(minPnOfLastBucket, k, Pc, Pn, "greater", "less"),
                             thisBucketsMinPnLocal, Pc, Pn, "greater", "less")
      ELSE thisBucketsMinPnLocal

\* every tuple takes its own Pn as Pc, not the minimum Pn of its bucket
updatePcLocalOwnPn(sorted, k) ==
  LET s == sorted[k]
  IN  AsSeq([j \in DOMAIN s |->
         IF thisBucketsMinPnGlobal(sorted, k, j)[Pn] < MAX_PID2
         THEN <<Min({s[j][Pn], s[j][Pc]}), s[j][Pn], s[j][nId]>>
         ELSE <<s[j][Pc], MAX_PID, s[j][nId]>>])

\* the buckets that are not stable keep their Pc
updatePcLocalKeepsPc(sorted, k) ==
  LET s == sorted[k]
  IN  AsSeq([j \in DOMAIN s |->
         IF thisBucketsMinPnGlobal(sorted, k, j)[Pn] < MAX_PID2
         THEN s[j]
         ELSE <<s[j][Pc], MAX_PID, s[j][nId]>>])

updatePcLocal(sorted, k) ==
  LET s == sorted[k]
  IN  AsSeq([j \in DOMAIN s |->
         LET m == thisBucketsMinPnGlobal(sorted, k, j)[Pn]
         IN  IF m < MAX_PID2
             THEN <<m, s[j][Pn], s[j][nId]>>
             ELSE <<s[j][Pc], MAX_PID, s[j][nId]>>])

\* the 'parentRequest' tuples the k-th rank of the subset emits: one for
\* every local bucket that is not stable
parentRequests(sorted, k, doubling) ==
  LET s == sorted[k]
      F[j \in 0..Len(s)] ==
        IF j = 0 THEN <<>>
        ELSE LET m == thisBucketsMinPnGlobal(sorted, k, j)[Pn]
             IN  IF findRangeFirst(s, j, Pc) = j /\ m < MAX_PID2 /\ doubling = ON
                 THEN Append(F[j-1], <<MAX_PID, MAX_PID, m>>)
                 ELSE F[j-1]
  IN  F[Len(s)]

\* variants of the local flag: always set, never set
convergedLocalAlways(sorted, k) == TRUE
convergedLocalNever(sorted, k) == FALSE

\* the local flag 'converged' of the k-th rank of the subset
convergedLocal(sorted, k) ==
  \A j \in DOMAIN sorted[k] : ~(thisBucketsMinPnGlobal(sorted, k, j)[Pn] < MAX_PID2)

\* "uint8_t converged" of every rank of comm when the subset is left: 1 on
\* a rank outside the subset
convergedOfRanks(act, sub, sorted) ==
  AsSeq([i \in DOMAIN act |->
           IF \E k \in DOMAIN sub : sub[k] = i
           THEN (IF convergedLocal(sorted, Place(sub, i)) THEN 1 ELSE 0)
           ELSE 1])

\* "allConverged" of every rank of comm
allConverged(act, sub, sorted) ==
  mxx_allreduce_min(convergedOfRanks(act, sub, sorted))

\* updatePc(begin, end, parentRequestTupleVector):
\* [act: the active ranges, req: the requests, conv: the value returned]
updatePcSubset(act, sub, sorted, doubling) ==
  [act  |-> PutBack(act, sub, AsSeq([k \in DOMAIN sub |-> updatePcLocal(sorted, k)])),
   req  |-> PutBack(AsSeq([i \in DOMAIN act |-> <<>>]), sub,
                    AsSeq([k \in DOMAIN sub |-> parentRequests(sorted, k, doubling)])),
   \* "return (allConverged == 1 ? true : false)", as rank 0 sees it
   conv |-> allConverged(act, sub, sorted)[1] = 1]

updatePc(act, tb, doubling) ==
  With(NonEmpty(act), LAMBDA sub :
    With(mxx_sort(Pick(act, sub), <<Pc, Pn>>, <<nId>>, tb), LAMBDA sorted :
      updatePcSubset(act, sub, sorted, doubling)))

\* a 'parentRequest' tuple is flipped with its own node as Pn: the parent
\* is not looked up
doublingStep1LocalNoLookup(sorted, k) ==
  LET s == sorted[k]
  IN  AsSeq([j \in DOMAIN s |->
         IF s[j][Pc] = MAX_PID THEN <<s[j][nId], s[j][nId], MAX_NID>> ELSE s[j]])

\* doPointerDoubling, step 1 on the k-th rank of the subset: a
\* 'parentRequest' tuple (Pc = MAX_PID) takes the minimum Pc of its node
\* bucket as Pn and is flipped.
doublingStep1Local(sorted, k) ==
  LET s == sorted[k]
      minPcOfLastBucket ==
        AsSeq([r \in DOMAIN sorted |-> local_reduce2(sorted[r], nId, Pc, "greater", "less")])
      MinPc(j) ==
        LET first == findRangeFirst(s, j, nId)
            second == findRangeSecond(s, first, nId)
            thisBucketsMinPcLocal == local_reduce1(SubSeq(s, first, second - 1), Pc, "less")
        IN  IF first = 1 /\ k # 1
            THEN TpleReduce2Layers(exscan2(minPcOfLastBucket, k, nId, Pc, "greater", "less"),
                                   thisBucketsMinPcLocal, nId, Pc, "greater", "less")
            ELSE thisBucketsMinPcLocal
  IN  AsSeq([j \in DOMAIN s |->
         IF s[j][Pc] = MAX_PID
         THEN <<s[j][nId], MinPc(j)[Pc], MAX_NID>>
         ELSE s[j]])

\* step 2: every bucket whose first local tuple is not stable takes the
\* minimum Pn of the bucket as Pc
doublingStep2Local(sorted, k) ==
  LET s == sorted[k]
  IN  AsSeq([j \in DOMAIN s |->
         IF s[findRangeFirst(s, j, Pc)][Pn] # MAX_PID
         THEN <<thisBucketsMinPnGlobal(sorted, k, j)[Pn], s[j][Pn], s[j][nId]>>
         ELSE s[j]])

\* partitionStableTuples<layer, op>(begin, end): std::partition by
\* op(get<layer>(e), max); <<left, right>>
partitionStableTuples(s, layer, equal) ==
  <<SelectIdx(s, LAMBDA e : (e[layer] = MAX_PID) = equal),
    SelectIdx(s, LAMBDA e : (e[layer] = MAX_PID) # equal)>>

\* doPointerDoubling(beginOffset, parentRequestTupleVector): tupleVector after
doublingStep1(sorted) == AsSeq([k \in DOMAIN sorted |-> doublingStep1Local(sorted, k)])
doublingStep2(sorted) == AsSeq([k \in DOMAIN sorted |-> doublingStep2Local(sorted, k)])

\* nothing is erased after the pointer jump
eraseNothing(pre, jumped) == Join(pre, jumped)

\* the 'parentRequest' tuples (nId = MAX_NID) are moved to the back and erased
eraseRequests(pre, jumped) ==
  With(pre, LAMBDA x :
    AsSeq([i \in DOMAIN x |-> x[i] \o partitionStableTuples(jumped[i], nId, FALSE)[1]]))

doPointerDoublingSubset(act, sub, tb1, tb2) ==
  With(mxx_sort(Pick(act, sub), <<nId, Pc>>, <<Pn>>, tb1), LAMBDA sorted1 :
    With(doublingStep1(sorted1), LAMBDA flipped :
      With(mxx_sort(flipped, <<Pc, Pn>>, <<nId>>, tb2), LAMBDA sorted2 :
        PutBack(act, sub, doublingStep2(sorted2)))))

doPointerDoubling(tv, dbm, req, tb1, tb2) ==
  With(Join(tv, req), LAMBDA withReq :
    With(Active(withReq, dbm), LAMBDA act :
      With(doPointerDoublingSubset(act, NonEmpty(act), tb1, tb2), LAMBDA jumped :
        eraseRequests(Prefix(withReq, dbm), jumped))))

\* nothing is skipped: every rank counts its own distinct keys
uniqueCountLocalNoSkip(sorted, k) ==
  LET s == sorted[k]
      F[j \in 0..Len(s)] ==
        IF j = 0 THEN <<0, 0>>
        ELSE IF j = 1 THEN <<1, j>>
        ELSE With(F[j-1], LAMBDA f :
               IF TpleComp(s[f[2]], s[j], Pc, "less") THEN <<f[1] + 1, j>> ELSE f)
  IN  F[Len(s)][1]

\* mxx::uniqueCount(begin, end, TpleComp<Pc>, comm): what the k-th rank of
\* the subset counts.  It skips the elements not greater than the last one
\* of the rank before, then counts the elements greater than the one
\* counted last (beginPrev).
uniqueCountLocal(sorted, k) ==
  LET s == sorted[k]
      prev == Last(sorted[k - 1])
      skip == IF k > 1
              THEN Cardinality({j \in DOMAIN s :
                                  \A i \in 1..j : ~TpleComp(prev, s[i], Pc, "less")})
              ELSE 0
      \* <<uniqueCountLocal, beginPrev>> after the element at position j
      F[j \in skip..Len(s)] ==
        IF j = skip THEN <<0, 0>>
        ELSE IF j = skip + 1 THEN <<1, j>>
        ELSE With(F[j-1], LAMBDA f :
               IF TpleComp(s[f[2]], s[j], Pc, "less") THEN <<f[1] + 1, j>> ELSE f)
  IN  F[Len(s)][1]

\* uniqueCountLocal of every rank: the ranks with begin != end run the body
\* among themselves, the others keep 0
uniqueCountOfRanks(v) ==
  With(NonEmpty(v), LAMBDA sub :
    With(Pick(v, sub), LAMBDA sorted :
      AsSeq([r \in DOMAIN v |->
               IF \E k \in DOMAIN sub : sub[k] = r
               THEN uniqueCountLocal(sorted, Place(sub, r)) ELSE 0])))

\* mxx::allreduce(&in, 1, &out, comm) of std::size_t values of `bits` bits:
\* on every rank the sum of the values of all ranks, modulo 2^bits
mxx_allreduce_sum(values, bits) ==
  AsSeq([r \in DOMAIN values |-> SumSeq(values) % (2 ^ bits)])

\* mxx::uniqueCount(begin, end, cmp, comm): uniqueCountGlobal on every rank
uniqueCountGlobal(v, bits) == mxx_allreduce_sum(uniqueCountOfRanks(v), bits)

\* the counts of the engine's runs are far below 2^SizeBits
uniqueCount(sorted) == uniqueCountGlobal(sorted, SizeBits)[1]

\* the tupleVector of the ranks of the subset, sorted by Pc if it was not
sortedByPc(tv, tb) ==
  With(Pick(tv, NonEmpty(tv)), LAMBDA sub :
    IF mxx_is_sorted(sub, Pc) THEN sub ELSE mxx_sort(sub, <<Pc>>, <<Pn, nId>>, tb))

computeComponentCount(tv, tb) ==
  With(sortedByPc(tv, tb), LAMBDA sorted : uniqueCount(sorted))

(***************************************************************************)
(* graphGen/common/reduceIds.hpp                                           *)
(***************************************************************************)
\* std::lower_bound(splitters.begin(), splitters.end(), value) on the sorted
\* splitters, as a distance from begin()
lower_bound(splitters, value) ==
  Cardinality({i \in DOMAIN splitters : splitters[i] < value})

\* vertexToBucketAssignment::operator(): the rank (0-based) of a value
vertexToBucketAssignment(splitters, valueToBucket) ==
  IF Len(splitters) > 0
  THEN With(lower_bound(splitters, valueToBucket), LAMBDA lower :
         IF lower # Len(splitters) /\ splitters[lower + 1] = valueToBucket
         THEN lower + 1 ELSE lower)
  ELSE 0

\* std::unique: of every run of equal adjacent values the first one stays
std_unique(s) == SelectIdx(AsSeq([j \in DOMAIN s |-> <<j, s[j]>>]),
                           LAMBDA x : x[1] = 1 \/ s[x[1] - 1] # x[2])

\* the values of the pairs <<index, value>>
Values(s) == AsSeq([j \in DOMAIN s |-> s[j][2]])

\* for(e : edgeList) push_back(e.first), push_back(e.second)
endpointsOf(edges) ==
  AsSeq([j \in 1..(2 * Len(edges)) |->
           IF j % 2 = 1 THEN edges[(j + 1) \div 2][src] ELSE edges[j \div 2][dst]])

\* mxx::sort(begin, end, comm) of plain values: a global sort, every rank
\* keeps the number of elements it had
mxx_sort_values(v) ==
  With(Concat(v), LAMBDA all : Split(SortByCode(all, all), Sizes(v)))

\* mxx::unique(begin, end, equal_to, comm) on a globally sorted vector: of
\* every run of equal values the first one stays, on the rank that holds it
mxx_unique(v) ==
  With(Values(std_unique(Concat(v))), LAMBDA kept :
    AsSeq([i \in DOMAIN v |->
             SelectIdx(kept, LAMBDA x :
               /\ \E j \in DOMAIN v[i] : v[i][j] = x
               /\ \A r \in 1..(i - 1) : \A j \in DOMAIN v[r] : v[r][j] # x)]))

\* mxx::allgather(get<layer>(edgeList.front())), the element of rank 0 erased.
\* front() of an empty vector is undefined: such a rank contributes whatever
\* it reads there (garbage).
allSplitters(edges, layer, garbage) ==
  AsSeq([r \in 1..(Len(edges) - 1) |->
           IF edges[r + 1] = <<>> THEN garbage ELSE edges[r + 1][1][layer]])

\* mxx::all2all_func(list, vertexRankAssigner, comm) and std::sort: every
\* rank ends with the values assigned to it, ascending
all2all_func(list, splitters) ==
  With(SortByCode(Concat(list), Concat(list)), LAMBDA all :
    AsSeq([r \in DOMAIN list |->
             SelectIdx(all, LAMBDA x : vertexToBucketAssignment(splitters, x) = r - 1)]))

\* mxx::exscan(x, comm) with std::plus: the sum over the lower ranks, 0 on
\* rank 0
mxx_exscan(x) == AsSeq([r \in DOMAIN x |-> SumSeq(SubSeq(x, 1, r - 1))])

\* std::find(it2, end, value): the first position from it2 on that holds
\* the value, Len + 1 (end) when there is none
std_find(list, it2, value) ==
  IF \E m \in it2..Len(list) : list[m] = value
  THEN Min({m \in it2..Len(list) : list[m] = value})
  ELSE Len(list) + 1

\* the traversal over the edges of one rank: <<it2, trueId>> of the bucket
\* that holds position j
traversal(edges, layer, list, exScanCountOfVertices) ==
  LET T[j \in 1..Len(edges)] ==
        IF j = 1 \/ edges[j - 1][layer] # edges[j][layer]
        THEN With(IF j = 1 THEN 1 ELSE T[j - 1][1], LAMBDA it2 :
               With(std_find(list, it2, edges[j][layer]), LAMBDA srcMatch :
                 <<srcMatch, exScanCountOfVertices + (srcMatch - 1)>>))
        ELSE T[j - 1]
  IN  AsSeq([j \in DOMAIN edges |-> T[j][2]])

\* the chosen layer of every edge of one rank rewritten to its trueId
updateLayerLocal(edges, layer, list, exScanCountOfVertices) ==
  With(traversal(edges, layer, list, exScanCountOfVertices), LAMBDA trueId :
    AsSeq([j \in DOMAIN edges |-> [edges[j] EXCEPT ![layer] = trueId[j]]]))

\* "Update the DEST layer of all the edges" / "Update the SRC layer ...",
\* after the global sort by the layer: [edges, list]
updateLayer(sorted, layer, list, garbage) ==
  With(all2all_func(list, allSplitters(sorted, layer, garbage)), LAMBDA bucketed :
    With(mxx_exscan(Sizes(bucketed)), LAMBDA exscan :
      [edges |-> AsSeq([r \in DOMAIN sorted |->
                          updateLayerLocal(sorted[r], layer, bucketed[r], exscan[r])]),
       list  |-> bucketed]))

\* reduceVertexIds, phase 1: the unique and sorted list of vertices
uniqueSortedVertices(edges) ==
  With(AsSeq([r \in DOMAIN edges |-> Values(std_unique(endpointsOf(edges[r])))]),
       LAMBDA local : mxx_unique(mxx_sort_values(local)))

(***************************************************************************)
(* bfs/bfsRunner.hpp, class bfsSupport.                                    *)
(***************************************************************************)
\* the side of the square processor grid of CombBLAS
GridSide(p) == CHOOSE s \in 1..p : s * s = p

\* FullyDistVec::LocArrSize() of a vector of length n on rank r (0-based) of
\* p: the processor rows share n, the last row takes the remainder; within
\* a row the columns share the row's part, the last column takes the
\* remainder
LocArrSize(n, p, r) ==
  LET side == GridSide(p)
      row == r \div side
      col == r % side
      n_perprocrow == n \div side
      n_thisrow == IF row = side - 1 THEN n - n_perprocrow * (side - 1)
                   ELSE n_perprocrow
      n_perproc == n_thisrow \div side
  IN  IF col = side - 1 THEN n_thisrow - n_perproc * (side - 1) ELSE n_perproc

\* the candidate of the first rank is returned as it is: no all-reduce
getSourceOfFirstRank(unVisited, sizes) ==
  IF unVisited[1] = {} THEN {MAX} ELSE unVisited[1]

\* local ids + offsetForLocalToGlobal: the global ids of every rank's
\* unvisited vertices
unVisitedGlobal(unVisited, sizes) ==
  With(mxx_exscan(sizes), LAMBDA offsetForLocalToGlobal :
    AsSeq([r \in DOMAIN unVisited |->
             {x + offsetForLocalToGlobal[r] : x \in unVisited[r]}]))

\* getSource: every rank offers *unVisitedVertices.begin(), some element of
\* its unordered set, or MAX when the set is empty; the minimum is taken.
\* The set of sources the call can return.
getSource(unVisited, sizes) ==
  With(unVisitedGlobal(unVisited, sizes), LAMBDA g :
    LET some == {r \in DOMAIN g : g[r] # {}}
    IN  IF some = {} THEN {MAX}
        ELSE {Min({f[r] : r \in some}) :
                f \in {h \in [some -> UNION {g[r] : r \in some}] :
                          \A r \in some : h[r] \in g[r]}})

\* one SpMV only: the traversal stops after the neighbours of the source
bfsOneLevel(adj, parents, fringe, count) ==
  LET next == {e[1] : e \in {x \in adj : x[2] \in fringe}} \ parents
  IN  <<parents \cup next, count + Cardinality(next)>>

\* while(fringe.getnnz() > 0): fringe = SpMV(A, fringe), the vertices with
\* a parent taken out (EWiseMult), parents.Set(fringe), count += nnz.
\* <<vertices that have a parent, trackCountOfVerticesVisited>>
RECURSIVE bfsTraversal(_, _, _, _)
bfsTraversal(adj, parents, fringe, count) ==
  IF fringe = {} THEN <<parents, count>>
  ELSE LET next == {e[1] : e \in {x \in adj : x[2] \in fringe}} \ parents
       IN  bfsTraversal(adj, parents \cup next, next, count + Cardinality(next))

\* the erase of removeFromHash without the offset of the rank: the global
\* id is erased from the set of local ids
removeFromHashGlobalIds(unVisited, sizes, visited) ==
  AsSeq([r \in DOMAIN unVisited |-> unVisited[r] \ visited])

\* fringe.removeFromHash(unVisitedVertices): every rank erases the local
\* ids of the vertices it owns
removeFromHash(unVisited, sizes, visited) ==
  With(mxx_exscan(sizes), LAMBDA offsetForLocalToGlobal :
    AsSeq([r \in DOMAIN unVisited |->
             unVisited[r] \ {x - offsetForLocalToGlobal[r] : x \in visited}]))

\* "return i" of the test srcPoint == MAX, one more than it
earlyReturnPlusOne(executed) == executed + 1

\* "return i" of the test srcPoint == MAX
earlyReturn(executed) == executed

\* findRange(first, end, val, TpleComp<layer>): <<it1, it2>>, the first run
\* at or after `first` of elements equivalent to val; <<end, end>> when
\* there is none
findRange(s, first, val, layer) ==
  LET hits == {m \in first..Len(s) : s[m][layer] = val}
  IN  IF hits = {} THEN <<Len(s) + 1, Len(s) + 1>>
      ELSE With(Min(hits), LAMBDA it1 :
             LET broken == {m \in it1..Len(s) : s[m][layer] # val}
             IN  <<it1, IF broken = {} THEN Len(s) + 1 ELSE Min(broken)>>)

\* the traversal over the vertex array of one rank: edgeListNew
filterLocal(edges, array) ==
  LET F[k \in 0..Len(array)] ==
        IF k = 0 THEN <<1, <<>>>>
        ELSE With(F[k - 1], LAMBDA f :
               With(findRange(edges, f[1], array[k], src), LAMBDA range :
                 <<range[2], f[2] \o SubSeq(edges, range[1], range[2] - 1)>>))
  IN  F[Len(array)][2]

\* mxx::left_shift(front) and push_back on all ranks of the subset but the
\* last
withNextProcsFirst(array, sub) ==
  AsSeq([k \in DOMAIN sub |->
           IF k < Len(sub) THEN Append(array[sub[k]], array[sub[k + 1]][1])
           ELSE array[sub[k]]])

\* edgeList.assign(edgeListNew) and distribute_inplace among the ranks that
\* have edges
assignAndDistribute(edgeListNew) ==
  With(NonEmpty(edgeListNew), LAMBDA sub :
    IF sub = <<>> THEN edgeListNew
    ELSE PutBack(edgeListNew, sub, mxx_distribute_inplace(Pick(edgeListNew, sub))))

\* the edge list sorted by SRC if it was not
sortedBySrc(edges, tb) ==
  IF mxx_is_sorted(edges, src) THEN edges ELSE mxx_sort(edges, <<src>>, <<dst>>, tb)

\* unVisitedVerticesArray of every rank after all2all_func
unVisitedVerticesArray(sorted, unVisited, sizes, garbage) ==
  all2all_func(AsSeq([r \in DOMAIN unVisited |->
                        SetToSeq(unVisitedGlobal(unVisited, sizes)[r])]),
               allSplitters(sorted, src, garbage))

\* edgeListNew of every rank: filled among the ranks whose array is not
\* empty
edgeListNew(sorted, array) ==
  With(NonEmpty(array), LAMBDA sub :
    With(withNextProcsFirst(array, sub), LAMBDA extended :
      AsSeq([r \in DOMAIN sorted |->
               IF \E k \in DOMAIN sub : sub[k] = r
               THEN filterLocal(sorted[r], extended[Place(sub, r)])
               ELSE <<>>])))

\* filterEdgeList(): the new distributed edge list
filterEdgeList(edges, unVisited, sizes, garbage, tb) ==
  With(sortedBySrc(edges, tb), LAMBDA sorted :
    With(unVisitedVerticesArray(sorted, unVisited, sizes, garbage), LAMBDA array :
      assignAndDistribute(edgeListNew(sorted, array))))

(***************************************************************************)
(* The collective calls a rank issues.  A call is <<the ranks of the       *)
(* communicator, the operation>>.                                          *)
(***************************************************************************)
AllRanks(v) == AsSeq([i \in DOMAIN v |-> i])

OnComm(c, ops) == AsSeq([k \in DOMAIN ops |-> <<c, ops[k]>>])

\* comm.with_subset(cond, f) on rank r: the split on comm and, on a rank
\* whose cond holds, the collectives of f on the subset
withSubsetCalls(comm, sub, r, ops) ==
  OnComm(comm, <<"with_subset">>)
    \o (IF \E k \in DOMAIN sub : sub[k] = r THEN OnComm(sub, ops) ELSE <<>>)

\* the value of 'converged' on every rank after "converged = updatePc(...)"
updatePcReturned(act, tb) ==
  With(NonEmpty(act), LAMBDA sub :
    With(mxx_sort(Pick(act, sub), <<Pc, Pn>>, <<nId>>, tb), LAMBDA sorted :
      AsSeq([r \in DOMAIN act |-> allConverged(act, sub, sorted)[r] = 1])))

\* "if(!converged && ...) { ...; if(OPTIMIZATION == loadbalanced)
\* mid = mxx::block_decompose_partitions(begin, mid, end, comm); }" on a
\* rank whose 'converged' is conv
endOfRoundCalls(comm, conv) ==
  IF ~conv /\ OPTIMIZATION = loadbalanced
  THEN OnComm(comm, <<"block_decompose_partitions">>) ELSE <<>>

\* the collectives rank r of the engine's communicator issues in the step
\* that is next, in program order
cclCollectives(r, tb) ==
  With(AllRanks(tupleVector), LAMBDA comm :
    CASE pc = "ccl" ->
           OnComm(comm, <<"sort", "reduce", "distribute_inplace">>)
      [] pc = "updatePn" ->
           withSubsetCalls(comm, NonEmpty(Active(tupleVector, distance_begin_mid)), r,
                           <<"sort", "exscan", "exscan">>)
      [] pc = "updatePc" ->
           With(Active(tupleVector, distance_begin_mid), LAMBDA act :
             withSubsetCalls(comm, NonEmpty(act), r, <<"sort", "exscan">>)
               \o OnComm(comm, <<"allreduce">>)
               \o (IF DOUBLING = ON THEN <<>>
                   ELSE endOfRoundCalls(comm, updatePcReturned(act, tb)[r])))
      [] pc = "doubling" ->
           withSubsetCalls(comm,
                           NonEmpty(Active(Join(tupleVector, parentRequestTupleVector),
                                           distance_begin_mid)), r,
                           <<"sort", "exscan", "sort", "exscan">>)
             \o OnComm(comm, <<"distribute_inplace">>)
             \o endOfRoundCalls(comm, converged)
      [] pc = "computed" ->
           With(NonEmpty(tupleVector), LAMBDA sub :
             withSubsetCalls(comm, sub, r,
                             <<"is_sorted">>
                               \o (IF mxx_is_sorted(Pick(tupleVector, sub), Pc)
                                   THEN <<>> ELSE <<"sort">>)
                               \o <<"with_subset", "right_shift", "allreduce">>)
               \o OnComm(comm, <<"allreduce">>))
      [] OTHER -> <<>>)

\* the collectives rank r issues in filterEdgeList
filterCollectives(r, tb, garbage) ==
  With(AllRanks(edgeList), LAMBDA comm :
    With(sortedBySrc(edgeList, tb), LAMBDA sorted :
      With(unVisitedVerticesArray(sorted, unVisitedVertices, localDistVecSize, garbage),
           LAMBDA array :
        OnComm(comm, <<"exscan", "is_sorted">>
                       \o (IF mxx_is_sorted(edgeList, src) THEN <<>> ELSE <<"sort">>)
                       \o <<"allgather", "all2all_func">>)
          \o withSubsetCalls(comm, NonEmpty(array), r, <<"left_shift">>)
          \o withSubsetCalls(comm, NonEmpty(edgeListNew(sorted, array)), r,
                             <<"distribute_inplace">>))))

\* the calls on communicator c among the calls s of a rank
CallsOn(s, c) == SelectSeq(s, LAMBDA call : call[1] = c)

\* collectives match: a call is issued on a communicator the rank belongs
\* to, and every rank of that communicator issues the same calls on it in
\* the same order
Matched(calls) ==
  \A r \in DOMAIN calls : \A j \in DOMAIN calls[r] :
    With(calls[r][j][1], LAMBDA c :
      /\ \E k \in DOMAIN c : c[k] = r
      /\ \A k \in DOMAIN c : CallsOn(calls[c[k]], c) = CallsOn(calls[r], c))

(***************************************************************************)
(* Input graphs: undirected, both orientations of every edge present.      *)
(***************************************************************************)
Vertices == 0 .. MaxVertex - 1
AllPairs == {e \in Vertices \X Vertices : e[1] < e[2]}
Graphs == {g \in SUBSET AllPairs : Cardinality(g) \in 1..MaxEdges}

\* the directed edges of g, (u,v) and (v,u) for every pair, as a sequence
DirectedEdges(g) ==
  LET both == g \cup {<<e[2], e[1]>> : e \in g}
      codes == SetToSeq({e[1] * (MAX_PID + 1) + e[2] : e \in both})
  IN  AsSeq([j \in DOMAIN codes |->
                <<codes[j] \div (MAX_PID + 1), codes[j] % (MAX_PID + 1)>>])

\* how the producer leaves the edges on p ranks: all on rank 0 (the tests),
\* or dealt out one by one (shuffled)
Distributions == {"rank0", "dealt"}
Distribute(edges, p, how) ==
  AsSeq([i \in 1..p |->
     IF how = "rank0"
     THEN (IF i = 1 THEN edges ELSE <<>>)
     ELSE SelectIdx(AsSeq([j \in DOMAIN edges |-> <<j, edges[j]>>]),
                    LAMBDA x : (x[1] - 1) % p = i - 1)])
Strip(v) == AsSeq([i \in DOMAIN v |-> AsSeq([j \in DOMAIN v[i] |-> v[i][j][2]])])
DistributedEdges(g, p, how) ==
  IF how = "rank0" THEN Distribute(DirectedEdges(g), p, how)
  ELSE Strip(Distribute(DirectedEdges(g), p, how))

\* connected components of the input graph
VerticesOf(g) == {e[1] : e \in g} \cup {e[2] : e \in g}
RECURSIVE ReachFrom(_, _)
ReachFrom(S, g) ==
  LET T == S \cup {e[2] : e \in {x \in g : x[1] \in S}}
                \cup {e[1] : e \in {x \in g : x[2] \in S}}
  IN  IF T = S THEN S ELSE ReachFrom(T, g)
ComponentOf(v, g) == ReachFrom({v}, g)
MinOfComponent(v, g) == Min(ComponentOf(v, g))
NumComponents(g) == Cardinality({MinOfComponent(v, g) : v \in VerticesOf(g)})

(***************************************************************************)
(* The coloring engine as a state machine.                                 *)
(***************************************************************************)
Empty(p) == AsSeq([i \in 1..p |-> <<>>])

CclIdle(p) ==
  /\ tupleVector = Empty(p)
  /\ distance_begin_mid = AsSeq([i \in 1..p |-> 0])
  /\ parentRequestTupleVector = Empty(p)
  /\ converged = FALSE
  /\ iterCount = 0
  /\ componentCount = -1

ReduceIdle(p) ==
  /\ uniqueVertexList = Empty(p)
  /\ origin = Empty(p)

BfsIdle(p) ==
  /\ A = {}
  /\ vertexCount = 0
  /\ localDistVecSize = AsSeq([i \in 1..p |-> 0])
  /\ unVisitedVertices = AsSeq([i \in 1..p |-> {}])
  /\ noIterations = 0
  /\ iteration = 0
  /\ srcPoint = MAX
  /\ countComponentSizes = <<>>
  /\ noBFSIterationsExecuted = 0

\* the state of the driver before "COMPUTE CONNECTIVITY"
DriverWaits ==
  /\ runBFS = FALSE
  /\ statisticVal = -1
  /\ gbDecision = <<>>
  /\ globalDegreeCounts = <<>>
  /\ nVertices = 0
  /\ countComponents = -1

DriverIdle ==
  /\ DriverWaits
  /\ cmd = <<>>
  /\ exitStatus = -1

\* the program is started at `start` on p ranks with the edges of a graph g
InitFor(start, ranks, graphs, hows, doublings, optimizations) ==
  \E p \in ranks, g \in graphs, how \in hows :
    /\ pc = start
    /\ inputEdges = g
    /\ edgeList = DistributedEdges(g, p, how)
    /\ DOUBLING \in doublings
    /\ OPTIMIZATION \in optimizations
    /\ cclComm = AsSeq([i \in 1..p |-> i])
    /\ CclIdle(p)
    /\ ReduceIdle(p)
    /\ BfsIdle(p)
    /\ DriverIdle

Init ==
  InitFor("ccl", 1..MaxRanks, Graphs, Distributions, {OFF, ON},
          {naive, stable_partition_removed, loadbalanced})

\* ccl(edgeList, comm): convertEdgeListforCCL and distribute_inplace
Construct ==
  /\ pc = "ccl"
  /\ \E tb \in TieBreaks :
       \E sorted \in {mxx_sort(Pick(edgeList, cclComm), <<src>>, <<dst>>, tb)} :
         /\ edgeList' = PutBack(edgeList, cclComm, sorted)
         /\ tupleVector' = mxx_distribute_inplace(convertEdgeListforCCL(sorted))
  /\ pc' = "compute"
  /\ UNCHANGED <<otherVars, inputEdges, DOUBLING, OPTIMIZATION, distance_begin_mid,
                 parentRequestTupleVector, converged, iterCount, componentCount>>

\* compute(): assert(tupleVector.begin() != tupleVector.end()), then the
\* round loop is entered.  A build with assertions aborts on a rank whose
\* local vector is empty, a build without them (NDEBUG) goes on.
Compute ==
  /\ pc = "compute"
  /\ \/ pc' = "updatePn"
     \/ /\ \E i \in DOMAIN tupleVector : tupleVector[i] = <<>>
        /\ pc' = "aborted"
  /\ UNCHANGED <<otherVars, inputEdges, edgeList, cclVars>>

\* runConnectedComponentLabeling, one round: updatePn(mid, end)
UpdatePn ==
  /\ pc = "updatePn"
  /\ iterCount < MaxIter
  /\ \E tb \in TieBreaks :
       \E act \in {Active(tupleVector, distance_begin_mid)} :
         \E new \in {updatePn(act, tb)} :
           tupleVector' = Join(Prefix(tupleVector, distance_begin_mid), new)
  /\ parentRequestTupleVector' = Empty(Len(tupleVector))
  /\ pc' = "updatePc"
  /\ UNCHANGED <<otherVars, inputEdges, edgeList, DOUBLING, OPTIMIZATION, distance_begin_mid,
                 converged, iterCount, componentCount>>

\* converged = updatePc(mid, end, parentRequestTupleVector)
UpdatePc ==
  /\ pc = "updatePc"
  /\ \E tb \in TieBreaks :
       \E act \in {Active(tupleVector, distance_begin_mid)} :
         \E r \in {updatePc(act, tb, DOUBLING)} :
           /\ tupleVector' = Join(Prefix(tupleVector, distance_begin_mid), r.act)
           /\ parentRequestTupleVector' = r.req
           /\ converged' = r.conv
  /\ pc' = IF DOUBLING = ON THEN "doubling" ELSE "partition"
  /\ UNCHANGED <<otherVars, inputEdges, edgeList, DOUBLING, OPTIMIZATION, distance_begin_mid,
                 iterCount, componentCount>>

\* if(DOUBLING): doPointerDoubling and distribute_inplace
DoPointerDoubling ==
  /\ pc = "doubling"
  /\ \E tb1 \in TieBreaks, tb2 \in TieBreaks :
       tupleVector' = mxx_distribute_inplace(
         doPointerDoubling(tupleVector, distance_begin_mid,
                           parentRequestTupleVector, tb1, tb2))
  /\ pc' = "partition"
  /\ UNCHANGED <<otherVars, inputEdges, edgeList, DOUBLING, OPTIMIZATION, distance_begin_mid,
                 parentRequestTupleVector, converged, iterCount, componentCount>>

\* the end of the round: partitionStableTuples, block_decompose_partitions,
\* distance_begin_mid, iterCount, and the test of the while loop
EndRound ==
  /\ pc = "partition"
  /\ IF ~converged /\ OPTIMIZATION \in {stable_partition_removed, loadbalanced}
     THEN \E act \in {Active(tupleVector, distance_begin_mid)} :
          \E parts \in {AsSeq([i \in DOMAIN act |-> partitionStableTuples(act[i], Pn, TRUE)])} :
          \E left \in {Join(Prefix(tupleVector, distance_begin_mid),
                             AsSeq([i \in DOMAIN act |-> parts[i][1]]))} :
          \E right \in {AsSeq([i \in DOMAIN act |-> parts[i][2]])} :
            IF OPTIMIZATION = loadbalanced
            THEN \E bal \in {mxx_block_decompose_partitions(left, right)} :
                   /\ tupleVector' = AsSeq([i \in DOMAIN act |-> bal[i][1] \o bal[i][2]])
                   /\ distance_begin_mid' = AsSeq([i \in DOMAIN act |-> Len(bal[i][1])])
            ELSE /\ tupleVector' = Join(left, right)
                 /\ distance_begin_mid' = Sizes(left)
     ELSE UNCHANGED <<tupleVector, distance_begin_mid>>
  /\ iterCount' = iterCount + 1
  /\ pc' = IF converged THEN "computed" ELSE "updatePn"
  /\ UNCHANGED <<otherVars, inputEdges, edgeList, DOUBLING, OPTIMIZATION,
                 parentRequestTupleVector, converged, componentCount>>

\* computeComponentCount()
ComputeComponentCount ==
  /\ pc = "computed"
  /\ \E tb \in TieBreaks :
       /\ tupleVector' = PutBack(tupleVector, NonEmpty(tupleVector),
                                 sortedByPc(tupleVector, tb))
       /\ \E count \in {computeComponentCount(tupleVector, tb)} :
            IF \A i \in DOMAIN tupleVector : tupleVector[i] # <<>>
            THEN componentCount' = count
            \* a rank outside the subset hands its uninitialized local
            \* 'componentCount' to allreduce(max)
            ELSE \E uninitialized \in 0..MAX_PID :
                   componentCount' = Max({count, uninitialized})
  /\ pc' = "counted"
  /\ UNCHANGED <<otherVars, inputEdges, edgeList, DOUBLING, OPTIMIZATION,
                 distance_begin_mid, parentRequestTupleVector, converged, iterCount>>

vars == <<pc, inputEdges, edgeList, cclVars, otherVars>>

\* the rounds of ccl<OFF, naive> from the tuples tv on, at most n more: the
\* tuples when updatePc returns true
RECURSIVE naiveRounds(_, _)
naiveRounds(tv, n) ==
  With(updatePc(updatePn(tv, "asc"), "asc", OFF), LAMBDA r :
    IF r.conv \/ n = 0 THEN r.act ELSE naiveRounds(r.act, n - 1))

\* ccl<OFF, naive>(edges, comm) and compute(): the tuples of every rank of
\* the distributed edge list
cclNaive(edges) ==
  naiveRounds(mxx_distribute_inplace(
                convertEdgeListforCCL(mxx_sort(edges, <<src>>, <<dst>>, "asc"))), MaxIter)

Next ==
  \/ Construct
  \/ Compute
  \/ UpdatePn
  \/ UpdatePc
  \/ DoPointerDoubling
  \/ EndRound
  \/ ComputeComponentCount

Spec == Init /\ [][Next]_vars

\* the ranks execute their phases fairly: a phase that can be taken is taken
InitLive ==
  InitFor("ccl", {1, MaxRanks}, Graphs, {"dealt"}, {OFF, ON},
          {naive, stable_partition_removed, loadbalanced})
SpecLive == InitLive /\ [][Next]_vars /\ WF_vars(Next)

\* the coloring on more ranks than a rank has tuples of one bucket: the
\* graphs of three edges on MaxRanks + 1 ranks, where the block
\* distribution leaves single tuples on the last ranks and a bucket of
\* three tuples covers a rank and reaches into both its neighbours; and
\* the graphs of one edge, where ranks have no tuple
WideGraphs == {g \in Graphs : Cardinality(g) \in {1, 3}}
InitWide ==
  InitFor("ccl", {MaxRanks + 1}, WideGraphs, {"dealt"}, {OFF, ON},
          {naive, stable_partition_removed, loadbalanced})
SpecWide == InitWide /\ [][Next]_vars

\* mxx::uniqueCount alone: a sequence of tuples sorted by Pc lies on the
\* ranks in pieces of any sizes, and every rank is given what the call returns
KeyTuples(keys) == AsSeq([j \in DOMAIN keys |-> <<keys[j], MAX_PID, keys[j]>>])

InitUniqueCount(ranks, keySeqs) ==
  \E p \in ranks, keys \in keySeqs :
    \E sizes \in {f \in [1..p -> 0..Len(keys)] : SumSeq(AsSeq(f)) = Len(keys)} :
      /\ pc = "uniqueCount"
      /\ inputEdges = {}
      /\ edgeList = Empty(p)
      /\ DOUBLING = ON
      /\ OPTIMIZATION = loadbalanced
      /\ cclComm = AsSeq([i \in 1..p |-> i])
      /\ tupleVector = Split(KeyTuples(keys), AsSeq(sizes))
      /\ distance_begin_mid = AsSeq([i \in 1..p |-> 0])
      /\ parentRequestTupleVector = Empty(p)
      /\ converged = TRUE
      /\ iterCount = 0
      /\ componentCount = -1
      /\ ReduceIdle(p)
      /\ BfsIdle(p)
      /\ DriverIdle

\* componentCount = mxx::uniqueCount(begin, end, TpleComp<Pc>, comm), as
\* any of the ranks gets it
UniqueCount ==
  /\ pc = "uniqueCount"
  /\ \E r \in DOMAIN tupleVector :
       componentCount' = uniqueCountGlobal(tupleVector, SizeBits)[r]
  /\ pc' = "uniqueCounted"
  /\ UNCHANGED <<otherVars, inputEdges, edgeList, DOUBLING, OPTIMIZATION, tupleVector,
                 distance_begin_mid, parentRequestTupleVector, converged, iterCount>>

\* the sorted sequences of up to MaxEdges keys out of the vertex ids
SortedKeys ==
  {s \in UNION {[1..n -> Vertices] : n \in 0..MaxEdges} :
     \A j \in 1..(Len(AsSeq(s)) - 1) : s[j] <= s[j + 1]}

InitSortedKeys == InitUniqueCount(1..(MaxRanks + 1), {AsSeq(s) : s \in SortedKeys})
SpecUniqueCount == InitSortedKeys /\ [][UniqueCount]_vars

\* sequences of distinct keys, fewer and more than std::size_t can count
ManyKeys ==
  {SetToSeq(S) : S \in {T \in SUBSET (0..MAX_PID2) : Cardinality(T) >= 2 ^ SizeBits - 2}}

InitManyKeys == InitUniqueCount({1, MaxRanks}, ManyKeys)
SpecOverflow == InitManyKeys /\ [][UniqueCount]_vars

\* the coloring of graphs with a short and a long component: a path over
\* the vertices 0 .. MaxVertex in any order and an edge between two higher
\* ids, so that the edge is stable rounds before the path and its tuples
\* are not on the first rank; and the graph of one edge, where ranks have
\* no tuple
LongVertices == 0 .. MaxVertex
Paths ==
  {f \in [1..(MaxVertex + 1) -> LongVertices] :
     /\ \A i, j \in DOMAIN f : i # j => f[i] # f[j]
     /\ f[1] < f[MaxVertex + 1]}
PathGraph(f) ==
  {<<Min({f[i], f[i + 1]}), Max({f[i], f[i + 1]})>> : i \in 1..MaxVertex}
LongGraphs ==
  {PathGraph(f) \cup {<<MaxVertex + 1, MaxVertex + 2>>} : f \in Paths}
    \cup {{<<0, 1>>}}
InitLong ==
  InitFor("ccl", {2, MaxRanks}, LongGraphs, {"dealt"}, {ON},
          {stable_partition_removed, loadbalanced})
SpecLong == InitLong /\ [][Next]_vars

\* the number of ranks of the run
NumRanks == Len(edgeList)

(***************************************************************************)
(* reduceVertexIds as a state machine.                                     *)
(***************************************************************************)
\* every edge together with the ids it has now: <<src, dst, src0, dst0>>
Tagged(edges) ==
  AsSeq([r \in DOMAIN edges |->
           AsSeq([j \in DOMAIN edges[r] |->
                    <<edges[r][j][src], edges[r][j][dst],
                      edges[r][j][src], edges[r][j][dst]>>])])
Zip(edges, tags) ==
  AsSeq([r \in DOMAIN edges |->
           AsSeq([j \in DOMAIN edges[r] |->
                    <<edges[r][j][src], edges[r][j][dst], tags[r][j][1], tags[r][j][2]>>])])
Edges(tagged) ==
  AsSeq([r \in DOMAIN tagged |->
           AsSeq([j \in DOMAIN tagged[r] |-> <<tagged[r][j][1], tagged[r][j][2]>>])])
Tags(tagged) ==
  AsSeq([r \in DOMAIN tagged |->
           AsSeq([j \in DOMAIN tagged[r] |-> <<tagged[r][j][3], tagged[r][j][4]>>])])

SomeRankEmpty(v) == \E r \in DOMAIN v : v[r] = <<>>

\* what front() of an empty vector may be read as
Garbage(v) == IF SomeRankEmpty(v) THEN 0..MaxVertex ELSE {0}

\* distribute_inplace and phase 1: the unique and sorted list of vertices.
\* assert(uniqueVertexList.size() > 0) aborts a build with assertions on a
\* rank without edges.
ReduceVertexList ==
  /\ pc = "reduce"
  /\ \E tagged \in {mxx_distribute_inplace(Tagged(edgeList))} :
       /\ edgeList' = Edges(tagged)
       /\ origin' = Tags(tagged)
       /\ uniqueVertexList' = uniqueSortedVertices(Edges(tagged))
       /\ \/ pc' = "reduceDest"
          \/ /\ SomeRankEmpty(tagged)
             /\ pc' = "aborted"
  /\ UNCHANGED <<inputEdges, cclVars, cclComm, bfsVars, driverVars>>

\* "Update the DEST layer of all the edges"
ReduceDest ==
  /\ pc = "reduceDest"
  /\ \E tb \in TieBreaks, garbage \in Garbage(edgeList) :
       \E sorted \in {mxx_sort(Zip(edgeList, origin), <<dst>>, <<src>>, tb)} :
         \E r \in {updateLayer(sorted, dst, uniqueVertexList, garbage)} :
           /\ edgeList' = Edges(r.edges)
           /\ origin' = Tags(r.edges)
           /\ uniqueVertexList' = r.list
  /\ pc' = "reduceSrc"
  /\ UNCHANGED <<inputEdges, cclVars, cclComm, bfsVars, driverVars>>

\* "Update the SRC layer of all the edges"
ReduceSrc ==
  /\ pc = "reduceSrc"
  /\ \E tb \in TieBreaks, garbage \in Garbage(edgeList) :
       \E sorted \in {mxx_sort(Zip(edgeList, origin), <<src>>, <<dst>>, tb)} :
         \E r \in {updateLayer(sorted, src, uniqueVertexList, garbage)} :
           /\ edgeList' = Edges(r.edges)
           /\ origin' = Tags(r.edges)
           /\ uniqueVertexList' = r.list
  /\ pc' = "reduced"
  /\ UNCHANGED <<inputEdges, cclVars, cclComm, bfsVars, driverVars>>

NextReduce ==
  \/ ReduceVertexList
  \/ ReduceDest
  \/ ReduceSrc

InitReduce ==
  InitFor("reduce", 1..MaxRanks, Graphs, Distributions, {ON}, {loadbalanced})

SpecReduce == InitReduce /\ [][NextReduce]_vars

\* globalSizeOfVector(v, comm)
globalSizeOfVector(v) == SumSeq(Sizes(v))

\* reduceVertexIds(edgeList, uniqueVertexList, comm) once more, on the edge
\* list the first call has left; the caller keeps the |V| of the first call
ReduceVertexIdsAgain ==
  /\ pc = "reduced"
  /\ nVertices = 0
  /\ nVertices' = globalSizeOfVector(uniqueVertexList)
  /\ pc' = "reduce"
  /\ UNCHANGED <<inputEdges, edgeList, cclVars, cclComm, reduceVars, bfsVars,
                 runBFS, countComponents, decisionVars, mainVars>>

NextReduceTwice ==
  \/ ReduceVertexList
  \/ ReduceDest
  \/ ReduceSrc
  \/ ReduceVertexIdsAgain

SpecReduceTwice == InitReduce /\ [][NextReduceTwice]_vars

\* the 0-based position of v among the distinct vertex ids of the graph
PositionOf(v, g) == Cardinality({u \in VerticesOf(g) : u < v})

(***************************************************************************)
(* bfsSupport as a state machine.                                          *)
(***************************************************************************)
\* the graphs of the BFS runs: ids 0 .. MaxBfsVertex - 1
BfsGraphs ==
  {g \in SUBSET {e \in (0 .. MaxBfsVertex - 1) \X (0 .. MaxBfsVertex - 1) : e[1] < e[2]} :
     Cardinality(g) \in 1..MaxEdges}

\* CombBLAS runs on square grids
GridRanks == {s * s : s \in 1..MaxGrid}

\* the set of the edges of a distributed edge list
EdgeSet(edges) == {Concat(edges)[j] : j \in DOMAIN Concat(edges)}

\* bfsSupport(edgeList, vertexCount, comm): the adjacency matrix and the
\* set of unvisited local ids.  An edge with an endpoint >= vertexCount is
\* outside the matrix: undefined.  Which endpoint of an edge is the row is
\* CombBLAS's choice.
BfsConstruct ==
  /\ pc = "bfs"
  /\ IF \E e \in EdgeSet(edgeList) : e[src] >= vertexCount \/ e[dst] >= vertexCount
     THEN /\ pc' = "undefined"
          /\ UNCHANGED <<A, localDistVecSize, unVisitedVertices>>
     ELSE /\ pc' = "runBFSIterations"
          /\ A' \in {EdgeSet(edgeList), {<<e[dst], e[src]>> : e \in EdgeSet(edgeList)}}
          /\ \E sizes \in {AsSeq([r \in DOMAIN edgeList |->
                                  LocArrSize(vertexCount, Len(edgeList), r - 1)])} :
               /\ localDistVecSize' = sizes
               /\ unVisitedVertices' = AsSeq([r \in DOMAIN edgeList |-> 0 .. (sizes[r] - 1)])
  /\ iteration' = 0
  /\ UNCHANGED <<inputEdges, edgeList, cclVars, cclComm, reduceVars, driverVars,
                 vertexCount, noIterations, srcPoint, countComponentSizes,
                 noBFSIterationsExecuted>>

\* one iteration of the for loop of runBFSIterations
BfsIteration ==
  /\ pc = "runBFSIterations"
  /\ iteration < noIterations
  /\ \E source \in getSource(unVisitedVertices, localDistVecSize) :
       /\ source # MAX
       /\ srcPoint' = source
       /\ \E visit \in {bfsTraversal(A, {source}, {source}, 1)} :
            /\ unVisitedVertices' =
                 removeFromHash(unVisitedVertices, localDistVecSize, visit[1])
            /\ countComponentSizes' = Append(countComponentSizes, visit[2])
  /\ iteration' = iteration + 1
  /\ UNCHANGED <<pc, inputEdges, edgeList, cclVars, cclComm, reduceVars, driverVars,
                 A, vertexCount, localDistVecSize, noIterations,
                 noBFSIterationsExecuted>>

\* "return i" when srcPoint == MAX, "return noIterations" after the loop
BfsReturn ==
  /\ pc = "runBFSIterations"
  /\ IF iteration < noIterations
     THEN /\ MAX \in getSource(unVisitedVertices, localDistVecSize)
          /\ noBFSIterationsExecuted' = earlyReturn(iteration)
     ELSE noBFSIterationsExecuted' = noIterations
  /\ pc' = "returned"
  /\ UNCHANGED <<inputEdges, edgeList, cclVars, cclComm, reduceVars, driverVars,
                 A, vertexCount, localDistVecSize, unVisitedVertices, noIterations,
                 iteration, srcPoint, countComponentSizes>>

\* filterEdgeList()
FilterEdgeList ==
  /\ pc = "returned"
  /\ \E tb \in TieBreaks, garbage \in Garbage(edgeList) :
       edgeList' = filterEdgeList(edgeList, unVisitedVertices, localDistVecSize,
                                  garbage, tb)
  /\ pc' = "filtered"
  /\ UNCHANGED <<inputEdges, cclVars, cclComm, reduceVars, bfsVars, driverVars>>

NextBFS ==
  \/ BfsConstruct
  \/ BfsIteration
  \/ BfsReturn
  \/ FilterEdgeList

\* a bfsSupport object is made for a graph on a square number of ranks,
\* vertexCount is the highest vertex id + 1
InitBFS ==
  \E p \in GridRanks, g \in BfsGraphs, k \in 1..MaxIterations :
    /\ pc = "bfs"
    /\ inputEdges = g
    /\ edgeList = DistributedEdges(g, p, "dealt")
    /\ DOUBLING = ON
    /\ OPTIMIZATION = loadbalanced
    /\ cclComm = AsSeq([i \in 1..p |-> i])
    /\ CclIdle(p)
    /\ ReduceIdle(p)
    /\ A = {}
    /\ vertexCount = Max(VerticesOf(g)) + 1
    /\ localDistVecSize = AsSeq([i \in 1..p |-> 0])
    /\ unVisitedVertices = AsSeq([i \in 1..p |-> {}])
    /\ noIterations = k
    /\ iteration = 0
    /\ srcPoint = MAX
    /\ countComponentSizes = <<>>
    /\ noBFSIterationsExecuted = 0
    /\ DriverIdle

SpecBFS == InitBFS /\ [][NextBFS]_vars

\* the two places the collectives of the engine's communicator are issued
\* from: a run of the coloring engine, or a run of bfsSupport that ends with
\* filterEdgeList
InitCollectives == InitWide \/ InitBFS

NextCollectives ==
  \/ Construct
  \/ Compute
  \/ UpdatePn
  \/ UpdatePc
  \/ DoPointerDoubling
  \/ EndRound
  \/ ComputeComponentCount
  \/ BfsConstruct
  \/ BfsIteration
  \/ BfsReturn
  \/ FilterEdgeList

SpecCollectives == InitCollectives /\ [][NextCollectives]_vars

\* the global ids that no BFS iteration has visited
UnVisited ==
  UNION {unVisitedGlobal(unVisitedVertices, localDistVecSize)[r] :
           r \in DOMAIN unVisitedVertices}

\* one more call runBFSIterations(k, countComponentSizes) on the same
\* bfsSupport object with the same vector: the loop starts at i = 0, the
\* members A, localDistVecSize and unVisitedVertices are as the call before
\* left them
RunBFSIterationsAgain ==
  /\ pc = "returned"
  /\ pc' = "runBFSIterations"
  /\ noIterations' \in 1..MaxIterations
  /\ iteration' = 0
  /\ UNCHANGED <<inputEdges, edgeList, cclVars, cclComm, reduceVars, driverVars,
                 A, vertexCount, localDistVecSize, unVisitedVertices, srcPoint,
                 countComponentSizes, noBFSIterationsExecuted>>

NextBFSCalls ==
  \/ BfsConstruct
  \/ BfsIteration
  \/ BfsReturn
  \/ RunBFSIterationsAgain
  \/ FilterEdgeList

\* a bfsSupport object on which runBFSIterations is called any number of
\* times before filterEdgeList
SpecBFSCalls == InitBFS /\ [][NextBFSCalls]_vars

\* runBFSIterations(n, countComponentSizes) as one call: the pairs
\* <<unVisitedVertices, countComponentSizes>> it can end with, from the
\* pairs in states
RECURSIVE runBFSIterations(_, _, _, _)
runBFSIterations(adj, sizes, states, n) ==
  IF n = 0 THEN states
  ELSE runBFSIterations(adj, sizes,
         UNION {IF MAX \in getSource(s[1], sizes) THEN {s}
                ELSE {With(bfsTraversal(adj, {source}, {source}, 1), LAMBDA visit :
                        <<removeFromHash(s[1], sizes, visit[1]), Append(s[2], visit[2])>>) :
                      source \in getSource(s[1], sizes)} : s \in states},
         n - 1)

\* the members of a bfsSupport object after its constructor
constructed(sizes) ==
  {<<AsSeq([r \in DOMAIN sizes |-> 0 .. (sizes[r] - 1)]), <<>>>>}

(***************************************************************************)
(* The driver, test/benchmark_parconnect_auto.cpp.                         *)
(***************************************************************************)
\* hash_64 on the keys 0 .. 5.  The 64-bit values are
\*   0, 6614235796240398542, -5218261022256003468, 1396078460937419741,
\*   8010255721068513841, -3822126110415902464;
\* what follows compares ids and tests them for equality only, so every
\* value is written as its position among the six.
hash_64(key) == <<2, 4, 0, 3, 5, 1>>[key + 1]

\* permuteVectorIds(edgeList)
permuteVectorIds(edges) ==
  AsSeq([r \in DOMAIN edges |->
           AsSeq([j \in DOMAIN edges[r] |->
                    <<hash_64(edges[r][j][src]), hash_64(edges[r][j][dst])>>])])

PermuteVectorIds ==
  /\ pc = "permute"
  /\ edgeList' = permuteVectorIds(edgeList)
  /\ pc' = "runBFSDecision"
  /\ UNCHANGED <<inputEdges, cclVars, otherVars>>

\* the values fitCurve returns on rank 0, in hundredths: 0.04 and 0.05
Statistics == {4, 5}

\* every rank keeps its own value: no reduction
mxx_allreduce_own(values) == values

\* mxx::allreduce(decision, mxx::max<int>(), comm): on every rank the
\* maximum of the values of all ranks
mxx_allreduce_max(values) ==
  AsSeq([r \in DOMAIN values |-> Max({values[q] : q \in DOMAIN values})])

\* "int decision = 0; if(!comm.rank()) { if(statisticVal < 0.05) decision = 1; }"
\* on every rank, rank 0 the first
decision(ranks, D) ==
  AsSeq([r \in 1..ranks |-> IF r = 1 /\ D < 5 THEN 1 ELSE 0])

\* std::unique(first, last) on a range of pairs of integers: the first
\* element of every run of equal adjacent elements is moved to the front,
\* the elements behind the new end are left as they were
uniqueInPlace(s) ==
  With(Values(std_unique(s)), LAMBDA kept : kept \o SubSeq(s, Len(kept) + 1, Len(s)))

\* std::distance(first, last): every element of the bucket is counted
distanceOfRange(bucket) == Len(bucket)

\* std::distance(equalSrcRange.first, uniqueDestVerticeIter)
distanceToUnique(bucket) == Len(std_unique(bucket))

\* the loop over the local buckets of equal SRC, from `it` on: <<the local
\* edge list after the loop, the currentDegree of every bucket>>
RECURSIVE degreeLoop(_, _)
degreeLoop(s, it) ==
  IF it > Len(s) THEN <<s, <<>>>>
  ELSE With(findRange(s, it, s[it][src], src), LAMBDA equalSrcRange :
         With(SubSeq(s, equalSrcRange[1], equalSrcRange[2] - 1), LAMBDA bucket :
           With(degreeLoop(SubSeq(s, 1, equalSrcRange[1] - 1) \o uniqueInPlace(bucket)
                             \o SubSeq(s, equalSrcRange[2], Len(s)),
                           equalSrcRange[2]), LAMBDA rest :
             <<rest[1], <<distanceToUnique(bucket)>> \o rest[2]>>)))

\* degreeHolder of every rank: the frequency of the degrees 1 .. maxDegree
\* among the rank's buckets, maxDegree the allreduce(max) of the local ones
degreeHolder(degrees) ==
  With(Max({0} \cup UNION {{degrees[r][k] : k \in DOMAIN degrees[r]} : r \in DOMAIN degrees}),
       LAMBDA maxDegree :
    AsSeq([r \in DOMAIN degrees |->
      AsSeq([i \in 1..maxDegree |->
               Cardinality({k \in DOMAIN degrees[r] : degrees[r][k] = i})])]))

\* mxx::reduce(v, 0, comm) of vectors of one length: on rank 0 the sums
mxx_reduce(v) ==
  AsSeq([i \in DOMAIN v[1] |-> SumSeq(AsSeq([r \in DOMAIN v |-> v[r][i]]))])

\* runBFSDecision: block decomposition, sort by (src, dst), the degree
\* counts of the local buckets reduced to rank 0 and 1 added to each; the
\* statistic of the curve fit on them is whatever plfit gives on rank 0;
\* "return gbDecision == 1"
RunBFSDecision ==
  /\ pc = "runBFSDecision"
  /\ \E sorted \in {mxx_sort(mxx_distribute_inplace(edgeList), <<src, dst>>, <<>>, "asc")} :
       \E loops \in {AsSeq([r \in DOMAIN sorted |-> degreeLoop(sorted[r], 1)])} :
         /\ edgeList' = AsSeq([r \in DOMAIN sorted |-> loops[r][1]])
         /\ globalDegreeCounts' =
              With(mxx_reduce(degreeHolder(AsSeq([r \in DOMAIN sorted |-> loops[r][2]]))),
                   LAMBDA counts : AsSeq([i \in DOMAIN counts |-> counts[i] + 1]))
  /\ statisticVal' \in Statistics
  /\ gbDecision' = mxx_allreduce_max(decision(Len(edgeList), statisticVal'))
  /\ runBFS' = (gbDecision'[1] = 1)
  /\ pc' = IF runBFS' THEN "reduce" ELSE "coloring"
  /\ UNCHANGED <<inputEdges, cclVars, cclComm, reduceVars, bfsVars, nVertices,
                 countComponents, mainVars>>

\* nVertices = globalSizeOfVector(uniqueVertexList);
\* bfsInstance(edgeList, nVertices, comm); runBFSIterations(1, ...)
StartBFS ==
  /\ pc = "reduced"
  /\ runBFS
  /\ nVertices' = globalSizeOfVector(uniqueVertexList)
  /\ vertexCount' = globalSizeOfVector(uniqueVertexList)
  /\ noIterations' = 1
  /\ pc' = "bfs"
  /\ UNCHANGED <<inputEdges, edgeList, cclVars, cclComm, reduceVars, runBFS,
                 decisionVars, mainVars, countComponents, A, localDistVecSize,
                 unVisitedVertices, iteration, srcPoint, countComponentSizes,
                 noBFSIterationsExecuted>>

\* comm.with_subset(edgeList.size() > 0, ...): the coloring runs among the
\* ranks that have edges, and not at all when there are none
WithSubset ==
  /\ pc \in {"coloring", "filtered"}
  /\ \E sub \in {NonEmpty(edgeList)} :
       /\ cclComm' = sub
       /\ tupleVector' = Empty(Len(sub))
       /\ parentRequestTupleVector' = Empty(Len(sub))
       /\ distance_begin_mid' = AsSeq([k \in DOMAIN sub |-> 0])
       /\ pc' = IF sub = <<>> THEN "skipped" ELSE "ccl"
  /\ UNCHANGED <<inputEdges, edgeList, DOUBLING, OPTIMIZATION, converged, iterCount,
                 componentCount, reduceVars, bfsVars, driverVars>>

\* countComponents = noBFSIterationsExecuted (+ computeComponentCount() on
\* the ranks of the subset), then allreduce(max)
ReportCount ==
  /\ pc \in {"counted", "skipped"}
  /\ countComponents' = IF pc = "counted"
                        THEN Max({noBFSIterationsExecuted,
                                  noBFSIterationsExecuted + componentCount})
                        ELSE noBFSIterationsExecuted
  /\ pc' = "done"
  /\ UNCHANGED <<inputEdges, edgeList, cclVars, cclComm, reduceVars, bfsVars,
                 runBFS, decisionVars, mainVars, nVertices>>

NextDriver ==
  \/ PermuteVectorIds
  \/ RunBFSDecision
  \/ ReduceVertexList
  \/ ReduceDest
  \/ ReduceSrc
  \/ StartBFS
  \/ BfsConstruct
  \/ BfsIteration
  \/ BfsReturn
  \/ FilterEdgeList
  \/ WithSubset
  \/ Construct
  \/ Compute
  \/ UpdatePn
  \/ UpdatePc
  \/ DoPointerDoubling
  \/ EndRound
  \/ ComputeComponentCount
  \/ ReportCount

InitDriver ==
  InitFor("permute", GridRanks, Graphs, {"dealt"}, {OFF, ON}, {loadbalanced})

SpecDriver == InitDriver /\ [][NextDriver]_vars

\* runBFSDecision alone, on edge lists that hold an edge more than once: the
\* edges of a graph, both ways, and those of at most one of its edges again
InitDegree ==
  \E p \in 1..MaxRanks, g \in Graphs :
    \E again \in {d \in SUBSET g : Cardinality(d) <= 1} :
      /\ pc = "runBFSDecision"
      /\ inputEdges = g
      /\ edgeList = Strip(Distribute(DirectedEdges(g) \o DirectedEdges(again), p, "dealt"))
      /\ DOUBLING = ON
      /\ OPTIMIZATION = loadbalanced
      /\ cclComm = AsSeq([i \in 1..p |-> i])
      /\ CclIdle(p)
      /\ ReduceIdle(p)
      /\ BfsIdle(p)
      /\ DriverIdle

SpecDegree == InitDegree /\ [][RunBFSDecision]_vars

(***************************************************************************)
(* main of benchmark_parconnect_auto.cpp: the command line, the producer   *)
(* of the edges, the computation and the exit status.                      *)
(***************************************************************************)
\* an option is <<>> when it is not on the command line and <<value>> when
\* it is; the value of --scale is a sequence of characters
Chars == {"1", "x"}
Digits == {"1"}
DigitValue(c) == IF c = "1" THEN 1 ELSE 0

RECURSIVE Strings(_)
Strings(n) ==
  IF n = 0 THEN {<<>>}
  ELSE Strings(n - 1) \cup {Append(str, c) : str \in Strings(n - 1), c \in Chars}

\* malformed: the command line has something else the parser refuses (an
\* option it does not know, an option without its value, a help request)
CommandLines ==
  [input : {<<>>, <<"generic">>, <<"dbg">>, <<"kronecker">>, <<"chain">>},
   file : {<<>>, <<"graph.txt">>},
   scale : {<<>>} \cup {<<str>> : str \in Strings(MaxScaleLen) \ {<<>>}},
   pointerDouble : {<<>>, <<"y">>, <<"n">>},
   malformed : BOOLEAN]

\* cmd.foundOption(name), cmd.optionValue(name)
foundOption(line, name) == line[name] # <<>>
optionValue(line, name) == IF foundOption(line, name) THEN line[name][1] ELSE ""

\* cmd.parse(argc, argv) with "input" and "pointerDouble" defined as
\* OptionRequired
parse(line) ==
  IF line.malformed THEN "ParserError"
  ELSE IF ~foundOption(line, "input") \/ ~foundOption(line, "pointerDouble")
  THEN "ParserRequiredOptionMissing"
  ELSE "NoParserError"

\* the digits a string starts with
RECURSIVE leadingDigits(_)
leadingDigits(str) ==
  IF str = <<>> \/ Head(str) \notin Digits THEN <<>>
  ELSE <<Head(str)>> \o leadingDigits(Tail(str))

RECURSIVE decimal(_)
decimal(digits) ==
  IF digits = <<>> THEN 0
  ELSE 10 * decimal(SubSeq(digits, 1, Len(digits) - 1))
       + DigitValue(digits[Len(digits)])

\* a conversion that gives 0 for a string without digits and never throws
stoiNoThrow(str) ==
  [threw |-> FALSE, value |-> decimal(leadingDigits(str))]

\* std::stoi(str): the number the string starts with; std::invalid_argument
\* when it starts with no digit
stoi(str) ==
  [threw |-> leadingDigits(str) = <<>>, value |-> decimal(leadingDigits(str))]

\* the status of a process that std::terminate ends: abort(), SIGABRT
Aborted == 134

\* lines 78-85: "if (result != ArgvParser::NoParserError) exit(1)"
ParseCommandLine ==
  /\ pc = "parse"
  /\ IF parse(cmd) # "NoParserError"
     THEN pc' = "exited" /\ exitStatus' = 1
     ELSE pc' = "generate" /\ exitStatus' = exitStatus
  /\ UNCHANGED <<inputEdges, edgeList, cclVars, cclComm, reduceVars, bfsVars,
                 runBFS, nVertices, countComponents, decisionVars, cmd>>

\* the exit status of the input dispatch, -1 when the edge list is populated
dispatch(line) ==
  IF optionValue(line, "input") \in {"generic", "dbg"}
  THEN (IF foundOption(line, "file") THEN -1 ELSE 1)
  ELSE IF optionValue(line, "input") = "kronecker"
  THEN (IF ~foundOption(line, "scale") THEN 1
        ELSE IF stoi(optionValue(line, "scale")).threw THEN Aborted
        ELSE -1)
  ELSE 1

\* lines 100-181: the pointer doubling choice and the graph of the chosen
\* input mode; the producer hands every rank its block of the edges
PopulateEdgeList ==
  /\ pc = "generate"
  /\ DOUBLING' = IF optionValue(cmd, "pointerDouble") = "y" THEN ON ELSE OFF
  /\ exitStatus' = dispatch(cmd)
  /\ IF exitStatus' = -1
     THEN /\ edgeList' = DistributedEdges(inputEdges, Len(edgeList), "dealt")
          /\ pc' = "permute"
     ELSE /\ edgeList' = edgeList
          /\ pc' = "exited"
  /\ UNCHANGED <<inputEdges, OPTIMIZATION, tupleVector, distance_begin_mid,
                 parentRequestTupleVector, converged, iterCount, componentCount,
                 cclComm, reduceVars, bfsVars, runBFS, nVertices, countComponents,
                 decisionVars, cmd>>

\* lines 294-295: MPI_Finalize(); return(0)
Finalize ==
  /\ pc = "done"
  /\ exitStatus = -1
  /\ cmd # <<>>
  /\ exitStatus' = 0
  /\ pc' = "exited"
  /\ UNCHANGED <<inputEdges, edgeList, cclVars, cclComm, reduceVars, bfsVars,
                 runBFS, nVertices, countComponents, decisionVars, cmd>>

NextMain ==
  \/ ParseCommandLine
  \/ PopulateEdgeList
  \/ NextDriver
  \/ Finalize

\* the graphs the producers deliver
MainGraphs == {{<<0, 1>>, <<2, 3>>}, {<<0, 1>>, <<1, 2>>, <<2, 3>>}}

\* the process is started on p ranks with a command line; the edge list is
\* declared and empty
InitMain ==
  \E p \in GridRanks, g \in MainGraphs, line \in CommandLines :
    /\ pc = "parse"
    /\ cmd = line
    /\ exitStatus = -1
    /\ inputEdges = g
    /\ edgeList = Empty(p)
    /\ DOUBLING = OFF
    /\ OPTIMIZATION = loadbalanced
    /\ cclComm = AsSeq([i \in 1..p |-> i])
    /\ CclIdle(p)
    /\ ReduceIdle(p)
    /\ BfsIdle(p)
    /\ DriverWaits

SpecMain == InitMain /\ [][NextMain]_vars


(***************************************************************************)
(* hash_64 and hash_64i on the vertex id type of the driver, int64_t.  A   *)
(* value is its W bits, the lowest first.  Additions, subtractions and     *)
(* multiplications wrap, key << k drops the high bits, key >> k of the     *)
(* signed key copies the sign bit, tmp >> k of the uint64_t tmp fills      *)
(* with zeros.                                                             *)
(***************************************************************************)
\* "NOTE: T should be a 64 bit type"
W == 64

\* the W bits of n, 0 <= n < 2^31
Word(n) == AsSeq([i \in 1..W |-> IF i > 31 THEN 0 ELSE (n \div 2^(i - 1)) % 2])

\* the W bits of a literal given by its four 16-bit parts, the lowest first
Literal(parts) ==
  AsSeq([i \in 1..W |-> (parts[((i - 1) \div 16) + 1] \div 2^((i - 1) % 16)) % 2])

\* ~a, a ^ b, a << k, a >> k (signed), a >> k (unsigned)
bitNot(a) == AsSeq([i \in 1..W |-> 1 - a[i]])
bitXor(a, b) == AsSeq([i \in 1..W |-> (a[i] + b[i]) % 2])
shiftLeft(a, k) == AsSeq([i \in 1..W |-> IF i > k THEN a[i - k] ELSE 0])
shiftRightSigned(a, k) == AsSeq([i \in 1..W |-> IF i + k <= W THEN a[i + k] ELSE a[W]])
shiftRightUnsigned(a, k) == AsSeq([i \in 1..W |-> IF i + k <= W THEN a[i + k] ELSE 0])

\* the value as W \div 8 bytes, the lowest first, and back
Bytes(a) ==
  AsSeq([l \in 1..(W \div 8) |->
           With(8 * (l - 1), LAMBDA o :
             a[o + 1] + 2 * a[o + 2] + 4 * a[o + 3] + 8 * a[o + 4] + 16 * a[o + 5]
               + 32 * a[o + 6] + 64 * a[o + 7] + 128 * a[o + 8])])
Bits(bytes) ==
  AsSeq([i \in 1..W |-> (bytes[((i - 1) \div 8) + 1] \div 2^((i - 1) % 8)) % 2])

\* a + b, a - b, a * b modulo 2^W, byte by byte with the carry
plus(a, b) ==
  With(Bytes(a), LAMBDA x :
    With(Bytes(b), LAMBDA y :
      LET carry[l \in 1..(W \div 8)] ==
            IF l = 1 THEN 0 ELSE (x[l - 1] + y[l - 1] + carry[l - 1]) \div 256
      IN  Bits(AsSeq([l \in 1..(W \div 8) |-> (x[l] + y[l] + carry[l]) % 256]))))
minus(a, b) == plus(plus(a, bitNot(b)), Word(1))
times(a, b) ==
  With(Bytes(a), LAMBDA x :
    With(Bytes(b), LAMBDA y :
      With(AsSeq([k \in 1..(W \div 8) |->
                    SumSeq(AsSeq([i \in 1..k |-> x[i] * y[k + 1 - i]]))]), LAMBDA column :
        LET carry[k \in 1..(W \div 8)] ==
              IF k = 1 THEN 0 ELSE (column[k - 1] + carry[k - 1]) \div 256
        IN  Bits(AsSeq([k \in 1..(W \div 8) |-> (column[k] + carry[k]) % 256])))))

\* hash_64<int64_t>(key): the value left in key
hash_64_int64(key) ==
  With(plus(bitNot(key), shiftLeft(key, 21)), LAMBDA k1 :
  With(bitXor(k1, shiftRightSigned(k1, 24)), LAMBDA k2 :
  With(plus(plus(k2, shiftLeft(k2, 3)), shiftLeft(k2, 8)), LAMBDA k3 :
  With(bitXor(k3, shiftRightSigned(k3, 14)), LAMBDA k4 :
  With(plus(plus(k4, shiftLeft(k4, 2)), shiftLeft(k4, 4)), LAMBDA k5 :
  With(bitXor(k5, shiftRightSigned(k5, 28)), LAMBDA k6 :
    plus(k6, shiftLeft(k6, 31))))))))

\* 14933078535860113213ull and 15244667743933553977ull
Inverse21 == Literal(<<53053, 15603, 62415, 53052>>)
Inverse265 == Literal(<<56633, 7171, 61579, 54159>>)

\* hash_64i<int64_t>(key): the value left in key; tmp is a uint64_t
hash_64i(key) ==
  With(minus(key, shiftLeft(minus(key, shiftLeft(key, 31)), 31)), LAMBDA k1 :
  With(bitXor(k1, shiftRightUnsigned(bitXor(k1, shiftRightSigned(k1, 28)), 28)), LAMBDA k2 :
  With(times(k2, Inverse21), LAMBDA k3 :
  With(bitXor(k3, shiftRightUnsigned(bitXor(k3, shiftRightUnsigned(bitXor(k3, shiftRightUnsigned(bitXor(k3, shiftRightSigned(k3, 14)), 14)), 14)), 14)),
       LAMBDA k4 :
  With(times(k4, Inverse265), LAMBDA k5 :
  With(bitXor(k5, shiftRightUnsigned(bitXor(k5, shiftRightSigned(k5, 24)), 24)), LAMBDA k6 :
  With(bitNot(minus(k6, shiftLeft(bitNot(k6), 21))), LAMBDA t1 :
  With(bitNot(minus(k6, shiftLeft(t1, 21))), LAMBDA t2 :
    bitNot(minus(k6, shiftLeft(t2, 21)))))))))))

\* the id 9223367638806167551, 0x7FFFFBFFFFDFFFFF
CollidingKey == Literal(<<65535, 65503, 64511, 32767>>)

\* the vertex ids of the hashed edge lists
HashKeys == {Word(n) : n \in 0..MaxKey} \cup {CollidingKey}

\* permuteVectorIds(edgeList) on one rank, the ids as int64_t values
PermuteVectorIds64 ==
  /\ pc = "hash"
  /\ edgeList' = AsSeq([r \in DOMAIN edgeList |->
                    AsSeq([j \in DOMAIN edgeList[r] |->
                             <<hash_64_int64(edgeList[r][j][src]),
                               hash_64_int64(edgeList[r][j][dst])>>])])
  /\ pc' = "hashed"
  /\ UNCHANGED <<inputEdges, cclVars, otherVars>>

\* hash_64i applied to both ends of every edge
InvertVectorIds64 ==
  /\ pc = "hashed"
  /\ edgeList' = AsSeq([r \in DOMAIN edgeList |->
                    AsSeq([j \in DOMAIN edgeList[r] |->
                             <<hash_64i(edgeList[r][j][src]),
                               hash_64i(edgeList[r][j][dst])>>])])
  /\ pc' = "inverted"
  /\ UNCHANGED <<inputEdges, cclVars, otherVars>>

NextHash ==
  \/ PermuteVectorIds64
  \/ InvertVectorIds64

\* one edge between two different ids on one rank
InitHash ==
  \E u \in HashKeys : \E v \in HashKeys \ {u} :
    /\ pc = "hash"
    /\ inputEdges = {<<u, v>>}
    /\ edgeList = <<<<<<u, v>>>>>>
    /\ DOUBLING = ON
    /\ OPTIMIZATION = loadbalanced
    /\ cclComm = <<1>>
    /\ CclIdle(1)
    /\ ReduceIdle(1)
    /\ BfsIdle(1)
    /\ DriverIdle

SpecHash == InitHash /\ [][NextHash]_vars

(***************************************************************************)
(* Claims about the coloring engine.                                       *)
(***************************************************************************)
\* C1: for every undirected graph (both orientations of every edge present)
\* distributed over p >= 1 ranks, compute() followed by
\* computeComponentCount() returns the number of connected components of the
\* graph, with pointer doubling ON and OFF.
C1_CountIsComponents ==
  pc = "counted" => componentCount = NumComponents(inputEdges)

\* C2: when compute() has returned, every tuple's Pc is the minimum vertex
\* id of the connected component of the tuple's node, so all tuples of one
\* node carry one and the same Pc.
C2_LabelsAreMinima ==
  pc \in {"computed", "counted"} =>
    \A i \in DOMAIN tupleVector : \A j \in DOMAIN tupleVector[i] :
      tupleVector[i][j][Pc] = MinOfComponent(tupleVector[i][j][nId], inputEdges)

\* compute() has returned on several ranks after more than two rounds, with
\* a node whose label is not the id of a neighbour-free minimum: the label
\* travelled at least two ids down
C2_Witness ==
  /\ pc = "computed"
  /\ NumRanks >= 2
  /\ iterCount >= 3
  /\ C2_LabelsAreMinima
  /\ \E i \in DOMAIN tupleVector : \E j \in DOMAIN tupleVector[i] :
       tupleVector[i][j][Pc] + 2 <= tupleVector[i][j][nId]

\* C4: compute() terminates: under fair execution of the phases the round
\* loop ends with converged = true (a build with assertions may instead
\* abort before the loop on an empty local vector), for every optimization
\* level and with doubling ON or OFF.
C4_Terminates ==
  (pc = "compute") ~> (pc = "aborted" \/ (pc = "computed" /\ converged))

\* the loop has ended after several rounds, on several ranks, with doubling
\* and load balancing
C4_Witness ==
  /\ pc = "computed"
  /\ converged
  /\ iterCount >= 2
  /\ NumRanks = MaxRanks
  /\ DOUBLING = ON
  /\ OPTIMIZATION = loadbalanced

(***************************************************************************)
(* Claims about reduceVertexIds.                                           *)
(***************************************************************************)
\* every edge of the result with the ids it had: <<src, dst, src0, dst0>>
ReducedEdges == Concat(Zip(edgeList, origin))

\* C5: reduceVertexIds rewrites the ids by one injective mapping: two
\* endpoints (src or dst, of any edges on any ranks) have the same new id
\* exactly when they had the same original id, for every p and every
\* distribution, also when the edges of one src or dst value span more than
\* two consecutive ranks after the global sort.
C5_OneInjectiveMapping ==
  pc = "reduced" =>
    \A j \in DOMAIN ReducedEdges, k \in DOMAIN ReducedEdges :
      \A a \in {src, dst}, b \in {src, dst} :
        (ReducedEdges[j][a + 2] = ReducedEdges[k][b + 2])
          <=> (ReducedEdges[j][a] = ReducedEdges[k][b])

\* C6: after reduceVertexIds the global size of uniqueVertexList is the
\* number |V| of distinct endpoints of the input, and every endpoint of
\* every edge on every rank is < |V|.
C6_SizeAndRange ==
  pc = "reduced" =>
    /\ globalSizeOfVector(uniqueVertexList) = Cardinality(VerticesOf(inputEdges))
    /\ \A j \in DOMAIN ReducedEdges : \A a \in {src, dst} :
         ReducedEdges[j][a] < Cardinality(VerticesOf(inputEdges))

\* C7: reduceVertexIds preserves the order: the edge (u, v) becomes (x, y),
\* x and y the 0-based positions of u and v in the ascending sequence of
\* the distinct vertex ids of the graph.
C7_OrderPreserving ==
  pc = "reduced" =>
    \A j \in DOMAIN ReducedEdges : \A a \in {src, dst} :
      ReducedEdges[j][a] = PositionOf(ReducedEdges[j][a + 2], inputEdges)

(***************************************************************************)
(* Claims about the rounds of the coloring.                                *)
(***************************************************************************)
\* both orientations of the edges of the input graph
InputEdgeList == inputEdges \cup {<<e[2], e[1]>> : e \in inputEdges}

\* the real tuples of a distributed vector: the 'parentRequest' tuples have
\* Pc = MAX_PID before their flip and nId = MAX_NID after it
RealTuples(tv) ==
  SelectIdx(Concat(tv), LAMBDA e : e[Pc] # MAX_PID /\ e[nId] # MAX_NID)

\* the number of tuples of node n with Pc <= x in a sequence of tuples
CountUpTo(tuples, n, x) ==
  Cardinality({j \in DOMAIN tuples : tuples[j][nId] = n /\ tuples[j][Pc] <= x})

\* the values of a layer in a sequence of tuples
LayerValues(tuples, layer) == {tuples[j][layer] : j \in DOMAIN tuples}

\* every node keeps its number of real tuples, and its k-th smallest Pc is
\* not greater after than before
PcNotIncreased(before, after) ==
  With(RealTuples(before), LAMBDA b :
    With(RealTuples(after), LAMBDA a :
      /\ Len(a) = Len(b)
      /\ \A n \in LayerValues(a, nId) \cup LayerValues(b, nId) :
           /\ CountUpTo(a, n, MAX_PID) = CountUpTo(b, n, MAX_PID)
           /\ \A x \in LayerValues(a, Pc) \cup LayerValues(b, Pc) :
                CountUpTo(a, n, x) >= CountUpTo(b, n, x)))

\* every node keeps its real tuples with their Pc
PcUnchanged(before, after) ==
  PcNotIncreased(before, after) /\ PcNotIncreased(after, before)

\* the tuples updatePc writes, position by position of the sorted ranges
updatePcKeepsOrLowers(act, tb) ==
  With(mxx_sort(Pick(act, NonEmpty(act)), <<Pc, Pn>>, <<nId>>, tb), LAMBDA sorted :
    \A k \in DOMAIN sorted :
      With(updatePcLocal(sorted, k), LAMBDA new :
        \A j \in DOMAIN sorted[k] :
          /\ new[j][nId] = sorted[k][j][nId]
          /\ new[j][Pc] <= sorted[k][j][Pc]))

\* the tuples doPointerDoubling writes: step 1 leaves the real tuples as
\* they are, step 2 keeps or lowers the Pc of every real tuple
doPointerDoublingKeepsOrLowers(act, tb1, tb2) ==
  With(mxx_sort(Pick(act, NonEmpty(act)), <<nId, Pc>>, <<Pn>>, tb1), LAMBDA sorted1 :
    With(doublingStep1(sorted1), LAMBDA flipped :
      /\ \A k \in DOMAIN sorted1 : \A j \in DOMAIN sorted1[k] :
           sorted1[k][j][Pc] # MAX_PID => flipped[k][j] = sorted1[k][j]
      /\ With(mxx_sort(flipped, <<Pc, Pn>>, <<nId>>, tb2), LAMBDA sorted2 :
           \A k \in DOMAIN sorted2 :
             With(doublingStep2Local(sorted2, k), LAMBDA new :
               \A j \in DOMAIN sorted2[k] :
                 sorted2[k][j][nId] # MAX_NID =>
                   /\ new[j][nId] = sorted2[k][j][nId]
                   /\ new[j][Pc] <= sorted2[k][j][Pc]))))

\* C13: the Pc of a real tuple never increases.  In every round updatePn
\* leaves every Pc as it is, updatePc and doPointerDoubling write to every
\* real tuple a Pc not greater than the one it had, on every rank, also for
\* the buckets that straddle rank boundaries, whatever order the sorts give
\* to equal keys; the moves between ranks change no tuple.
C13_PcNeverIncreases ==
  [][/\ pc = "updatePn" => PcUnchanged(tupleVector, tupleVector')
     /\ pc = "updatePc" =>
          /\ \A tb \in TieBreaks :
               updatePcKeepsOrLowers(Active(tupleVector, distance_begin_mid), tb)
          /\ PcNotIncreased(tupleVector, tupleVector')
     /\ pc = "doubling" =>
          /\ \A tb1 \in TieBreaks, tb2 \in TieBreaks :
               doPointerDoublingKeepsOrLowers(
                 Active(Join(tupleVector, parentRequestTupleVector),
                        distance_begin_mid), tb1, tb2)
          /\ PcNotIncreased(tupleVector, tupleVector')
     /\ pc = "partition" => PcUnchanged(tupleVector, tupleVector')]_vars

\* a round on three ranks that has not converged, after updatePc and
\* doPointerDoubling: a real tuple has a Pc below the id of its node that is
\* no neighbour of the node, so its Pc was lowered
C13_Witness ==
  /\ pc = "partition"
  /\ DOUBLING = ON
  /\ NumRanks = 3
  /\ ~converged
  /\ \E r \in DOMAIN tupleVector : \E j \in DOMAIN tupleVector[r] :
       With(tupleVector[r][j], LAMBDA t :
         /\ t[Pc] < t[nId]
         /\ t[nId] # MAX_NID
         /\ <<t[Pc], t[nId]>> \notin InputEdgeList)

\* the tuples of before, each with the Pc f gives to its bucket, are the
\* tuples of after: same number of tuples for every (Pc, node)
Relabels(f, before, after) ==
  \A x \in LayerValues(after, Pc) \cup {f[c] : c \in DOMAIN f},
     n \in LayerValues(after, nId) \cup LayerValues(before, nId) :
    Cardinality({j \in DOMAIN after : after[j][Pc] = x /\ after[j][nId] = n}) =
    Cardinality({j \in DOMAIN before : f[before[j][Pc]] = x /\ before[j][nId] = n})

\* a step gives one new Pc to each Pc bucket of the real tuples
BucketsStayTogether(before, after) ==
  With(RealTuples(before), LAMBDA b :
    With(RealTuples(after), LAMBDA a :
      \E f \in [LayerValues(b, Pc) -> LayerValues(a, Pc)] : Relabels(f, b, a)))

\* two positions of the whole local vectors (stable prefix and written
\* range) with equal Pc before have equal Pc after
equalPcStaysEqual(before, after) ==
  \A r1 \in DOMAIN before, r2 \in DOMAIN before :
    \A j1 \in DOMAIN before[r1], j2 \in DOMAIN before[r2] :
      (/\ before[r1][j1][nId] # MAX_NID
       /\ before[r2][j2][nId] # MAX_NID
       /\ before[r1][j1][Pc] = before[r2][j2][Pc])
        => after[r1][j1][Pc] = after[r2][j2][Pc]

\* updatePc, position by position: the vectors before and after the write
updatePcKeepsBuckets(tv, dbm, tb) ==
  With(Active(tv, dbm), LAMBDA act :
    With(NonEmpty(act), LAMBDA sub :
      With(mxx_sort(Pick(act, sub), <<Pc, Pn>>, <<nId>>, tb), LAMBDA sorted :
        equalPcStaysEqual(
          Join(Prefix(tv, dbm), PutBack(act, sub, sorted)),
          Join(Prefix(tv, dbm),
               PutBack(act, sub, AsSeq([k \in DOMAIN sub |-> updatePcLocal(sorted, k)])))))))

\* doPointerDoubling, position by position of its second sort
doPointerDoublingKeepsBuckets(tv, dbm, req, tb1, tb2) ==
  With(Active(Join(tv, req), dbm), LAMBDA act :
    With(NonEmpty(act), LAMBDA sub :
      With(mxx_sort(doublingStep1(mxx_sort(Pick(act, sub), <<nId, Pc>>, <<Pn>>, tb1)),
                    <<Pc, Pn>>, <<nId>>, tb2), LAMBDA sorted2 :
        equalPcStaysEqual(
          Join(Prefix(tv, dbm), PutBack(act, sub, sorted2)),
          Join(Prefix(tv, dbm), PutBack(act, sub, doublingStep2(sorted2)))))))

\* C14: two tuples with equal Pc keep equal Pc.  updatePc and
\* doPointerDoubling give one new Pc to all the real tuples of a Pc bucket,
\* the tuples of the stable prefix and of other ranks included, whatever
\* order the sorts give to equal keys; updatePn, the redistribution after
\* pointer doubling, partitioning and load balancing change no Pc.  So
\* tuples with equal Pc at the end of a round have equal Pc at the end of
\* every later round and at convergence.
C14_EqualPcStaysEqual ==
  [][/\ pc \in {"updatePn", "partition"} => PcUnchanged(tupleVector, tupleVector')
     /\ pc = "updatePc" =>
          /\ \A tb \in TieBreaks :
               updatePcKeepsBuckets(tupleVector, distance_begin_mid, tb)
          /\ BucketsStayTogether(tupleVector, tupleVector')
     /\ pc = "doubling" =>
          /\ \A tb1 \in TieBreaks, tb2 \in TieBreaks :
               doPointerDoublingKeepsBuckets(tupleVector, distance_begin_mid,
                                             parentRequestTupleVector, tb1, tb2)
          /\ BucketsStayTogether(tupleVector, tupleVector')]_vars

\* a later round of the load-balanced coloring on three ranks: a rank has a
\* stable prefix and active tuples, and a Pc bucket is on two ranks
C14_Witness ==
  /\ pc = "updatePc"
  /\ OPTIMIZATION = loadbalanced
  /\ NumRanks = 3
  /\ iterCount >= 1
  /\ \E r \in DOMAIN tupleVector :
       0 < distance_begin_mid[r] /\ distance_begin_mid[r] < Len(tupleVector[r])
  /\ \E r1 \in DOMAIN tupleVector, r2 \in DOMAIN tupleVector :
       /\ r1 < r2
       /\ \E j1 \in DOMAIN tupleVector[r1], j2 \in DOMAIN tupleVector[r2] :
            tupleVector[r1][j1][Pc] = tupleVector[r2][j2][Pc]

\* C15: in every reachable state of the coloring, in every round, with and
\* without pointer doubling, the Pc of a real tuple is the id of a vertex of
\* the connected component of the tuple's node; so two tuples whose nodes
\* are in different components never have equal Pc.
C15_PcInComponentOfNode ==
  pc \notin {"ccl"} =>
    With(RealTuples(tupleVector), LAMBDA t :
      /\ \A j \in DOMAIN t : t[j][Pc] \in ComponentOf(t[j][nId], inputEdges)
      /\ \A i \in DOMAIN t, j \in DOMAIN t :
           ComponentOf(t[i][nId], inputEdges) # ComponentOf(t[j][nId], inputEdges)
             => t[i][Pc] # t[j][Pc])

\* after updatePc and pointer doubling on three ranks, a graph of two
\* components: every tuple has the smallest id of the component of its node
\* as Pc, and the tuples have two different Pc
C15_Witness ==
  /\ pc = "partition"
  /\ DOUBLING = ON
  /\ NumRanks = 3
  /\ NumComponents(inputEdges) >= 2
  /\ With(RealTuples(tupleVector), LAMBDA t :
       /\ \A j \in DOMAIN t : t[j][Pc] = MinOfComponent(t[j][nId], inputEdges)
       /\ \E i \in DOMAIN t, j \in DOMAIN t : t[i][Pc] # t[j][Pc])

\* updatePc on the sorted ranges: when a rank clears its flag, a tuple of
\* some rank gets a Pc below the one it had
updatePcLowersSomePc(act, tb) ==
  With(mxx_sort(Pick(act, NonEmpty(act)), <<Pc, Pn>>, <<nId>>, tb), LAMBDA sorted :
    (\E k \in DOMAIN sorted : ~convergedLocal(sorted, k)) =>
      \E k \in DOMAIN sorted :
        With(updatePcLocal(sorted, k), LAMBDA new :
          \E j \in DOMAIN sorted[k] : new[j][Pc] < sorted[k][j][Pc]))

\* C21: a round that updatePc declares not converged lowers the Pc of a
\* real tuple: updatePc itself writes a smaller Pc to some tuple, under
\* every order of equal keys, and what follows in the round (pointer
\* doubling, the redistribution, partitioning, load balancing) raises no
\* Pc, so the Pc of the nodes at the end of the round are not those of its
\* start.
C21_NotConvergedLowersPc ==
  [][/\ pc = "updatePn" => PcUnchanged(tupleVector, tupleVector')
     /\ pc = "updatePc" =>
          /\ \A tb \in TieBreaks :
               updatePcLowersSomePc(Active(tupleVector, distance_begin_mid), tb)
          /\ ~converged' =>
               /\ PcNotIncreased(tupleVector, tupleVector')
               /\ ~PcNotIncreased(tupleVector', tupleVector)
     /\ pc \in {"doubling", "partition"} => PcNotIncreased(tupleVector, tupleVector')]_vars

\* a later round on three ranks that updatePc has declared not converged
C21_Witness ==
  /\ pc \in {"doubling", "partition"}
  /\ NumRanks = 3
  /\ iterCount >= 1
  /\ ~converged
  /\ \A r \in DOMAIN tupleVector : tupleVector[r] # <<>>

\* the values updatePc returns on the ranks of comm, and the ranks that
\* wrote a Pc: a bucket that is written keeps its Pn, a stable one gets
\* Pn = MAX_PID
updatePcReturnsOneValue(act, tb) ==
  With(NonEmpty(act), LAMBDA sub :
    With(mxx_sort(Pick(act, sub), <<Pc, Pn>>, <<nId>>, tb), LAMBDA sorted :
      With(allConverged(act, sub, sorted), LAMBDA returned :
        With(updatePcSubset(act, sub, sorted, DOUBLING).act, LAMBDA new :
          /\ Len(returned) = NumRanks
          /\ \A r \in DOMAIN returned :
               (returned[r] = 1) <=>
                 (\A q \in DOMAIN new : \A j \in DOMAIN new[q] : new[q][j][Pn] = MAX_PID)))))

\* C22: updatePc returns the same value on every rank of the communicator
\* of the engine, the ranks with an empty active range included, and the
\* value is true iff no rank wrote a Pc; the flag that ends the round loop
\* is that value.
C22_SameConvergedOnEveryRank ==
  [][pc = "updatePc" =>
       /\ \A tb \in TieBreaks :
            updatePcReturnsOneValue(Active(tupleVector, distance_begin_mid), tb)
       /\ converged' <=>
            \A q \in DOMAIN tupleVector' :
              \A j \in (distance_begin_mid[q] + 1)..Len(tupleVector'[q]) :
                tupleVector'[q][j][Pn] = MAX_PID]_vars

\* updatePc has run on three ranks, one of them with an empty active range
\* and another with a bucket that was written: not converged
C22_Witness ==
  /\ pc \in {"doubling", "partition"}
  /\ NumRanks = 3
  /\ ~converged
  /\ \E r \in DOMAIN tupleVector : distance_begin_mid[r] = Len(tupleVector[r])
  /\ \E r \in DOMAIN tupleVector :
       \E j \in (distance_begin_mid[r] + 1)..Len(tupleVector[r]) :
         tupleVector[r][j][Pn] # MAX_PID

\* the Pn of the node bucket n of the tuples 'all': m if m < M, MAX_PID2
\* otherwise, m = min(minimum Pc of the bucket, n), M = maximum Pc
PnOfBucket(all, n) ==
  With({all[j][Pc] : j \in {i \in DOMAIN all : all[i][nId] = n}}, LAMBDA pcs :
    With(Min(pcs \cup {n}), LAMBDA m :
      IF m < Max(pcs) THEN m ELSE MAX_PID2))

\* the number of the tuples equal to t in a sequence of tuples
Copies(tuples, t) == Cardinality({j \in DOMAIN tuples : tuples[j] = t})

\* two sequences hold the same tuples, each as often
SameTuples(a, b) ==
  /\ Len(a) = Len(b)
  /\ \A j \in DOMAIN a : Copies(a, a[j]) = Copies(b, a[j])

\* updatePn over the ranks writes to every position the Pn of the whole
\* bucket of its node, and its result is the one of updatePn on one rank
updatePnAsOnOneRank(act, tb) ==
  With(Concat(act), LAMBDA all :
    With(Concat(updatePn(act, tb)), LAMBDA new :
      /\ \A j \in DOMAIN new : new[j][Pn] = PnOfBucket(all, new[j][nId])
      /\ \A tb1 \in TieBreaks : SameTuples(new, Concat(updatePn(<<all>>, tb1)))
      /\ SameTuples(AsSeq([j \in DOMAIN new |-> <<new[j][Pc], new[j][nId]>>]),
                    AsSeq([j \in DOMAIN all |-> <<all[j][Pc], all[j][nId]>>]))))

\* C23: updatePn over p ranks gives the result of updatePn over one rank:
\* every tuple of a node bucket of the active tuples, however the bucket is
\* split over consecutive ranks, gets Pn = m if m < M and Pn = MAX_PID2
\* otherwise, with m = min(minimum Pc of the whole bucket, node) and M =
\* maximum Pc of the whole bucket, under every order of equal keys.
C23_UpdatePnAsOnOneRank ==
  [][pc = "updatePn" =>
       /\ \A tb \in TieBreaks :
            updatePnAsOnOneRank(Active(tupleVector, distance_begin_mid), tb)
       /\ With(Concat(Active(tupleVector, distance_begin_mid)), LAMBDA all :
            \A r \in DOMAIN tupleVector' :
              \A j \in (distance_begin_mid[r] + 1)..Len(tupleVector'[r]) :
                tupleVector'[r][j][Pn] = PnOfBucket(all, tupleVector'[r][j][nId]))]_vars

\* after updatePn: a node bucket with more than one Pc has tuples on three
\* consecutive ranks, the active range of the middle rank is all of that
\* bucket
C23_Witness ==
  /\ pc = "updatePc"
  /\ With(Active(tupleVector, distance_begin_mid), LAMBDA act :
       \E r \in DOMAIN act :
         /\ r > 1 /\ r < Len(act)
         /\ act[r - 1] # <<>> /\ act[r] # <<>> /\ act[r + 1] # <<>>
         /\ \A j \in DOMAIN act[r] : act[r][j][nId] = Last(act[r - 1])[nId]
         /\ act[r + 1][1][nId] = Last(act[r - 1])[nId]
         /\ Last(act[r - 1])[Pn] # MAX_PID2)

\* the minimum Pn of the Pc bucket c of the tuples 'all'
MinPnOfBucket(all, c) ==
  Min({all[j][Pn] : j \in {i \in DOMAIN all : all[i][Pc] = c}})

\* what updatePc makes of the tuple t of the tuples 'all'
updatedTuple(all, t) ==
  With(MinPnOfBucket(all, t[Pc]), LAMBDA m :
    IF m < MAX_PID2 THEN <<m, t[Pn], t[nId]>> ELSE <<t[Pc], MAX_PID, t[nId]>>)

\* updatePc over the ranks writes every position from the minimum Pn of
\* the whole bucket, and its result is the one of updatePc on one rank
updatePcAsOnOneRank(act, tb) ==
  With(NonEmpty(act), LAMBDA sub :
    With(mxx_sort(Pick(act, sub), <<Pc, Pn>>, <<nId>>, tb), LAMBDA sorted :
      With(Concat(act), LAMBDA all :
        /\ \A k \in DOMAIN sorted :
             With(updatePcLocal(sorted, k), LAMBDA new :
               \A j \in DOMAIN sorted[k] : new[j] = updatedTuple(all, sorted[k][j]))
        /\ \A tb1 \in TieBreaks :
             With(updatePc(<<all>>, tb1, DOUBLING), LAMBDA one :
               /\ SameTuples(Concat(updatePc(act, tb, DOUBLING).act), Concat(one.act))
               /\ updatePc(act, tb, DOUBLING).conv = one.conv))))

\* C24: updatePc over p ranks gives the result of updatePc over one rank:
\* every tuple of a Pc bucket of the active tuples, however the bucket is
\* split over consecutive ranks, gets Pc = the minimum Pn of the whole
\* bucket when that minimum is below MAX_PID2, and Pn = MAX_PID otherwise;
\* no bucket is written on one rank and marked stable on another.
C24_UpdatePcAsOnOneRank ==
  [][pc = "updatePc" =>
       /\ \A tb \in TieBreaks :
            updatePcAsOnOneRank(Active(tupleVector, distance_begin_mid), tb)
       /\ With(Concat(Active(tupleVector, distance_begin_mid)), LAMBDA all :
            SameTuples(Concat(Active(tupleVector', distance_begin_mid)),
                       AsSeq([j \in DOMAIN all |-> updatedTuple(all, all[j])])))]_vars

\* the star with the centre 3 on four ranks, first round: the bucket Pc = 3
\* held the tuples of the nodes 0, 1, 2 on the ranks 1, 2, 3 (the whole of
\* rank 2) and every one of them has got the Pc 0
C24_Witness ==
  /\ pc = "partition"
  /\ DOUBLING = OFF
  /\ iterCount = 0
  /\ inputEdges = {<<0, 3>>, <<1, 3>>, <<2, 3>>}
  /\ Len(tupleVector) = 4
  /\ Last(tupleVector[2]) = <<0, 0, 0>>
  /\ tupleVector[3] = <<<<0, 1, 1>>>>
  /\ tupleVector[4] = <<<<0, 2, 2>>>>

\* the minimum Pc among the tuples of 'all' with node n; MAX_PID when only
\* 'parentRequest' tuples have that node
RootOf(all, n) ==
  Min({all[j][Pc] : j \in {i \in DOMAIN all : all[i][nId] = n}} \cup {MAX_PID})

\* doPointerDoubling, position by position of its two sorts
doPointerDoublingJumpsToRoot(act, tb1, tb2) ==
  With(Concat(act), LAMBDA all :
    With(mxx_sort(Pick(act, NonEmpty(act)), <<nId, Pc>>, <<Pn>>, tb1), LAMBDA sorted1 :
      With(doublingStep1(sorted1), LAMBDA flipped :
        \* step 1: a request for new_Pc gets the minimum Pc of the node new_Pc
        /\ \A k \in DOMAIN sorted1 : \A j \in DOMAIN sorted1[k] :
             With(sorted1[k][j], LAMBDA t :
               flipped[k][j] = IF t[Pc] = MAX_PID
                               THEN <<t[nId], RootOf(all, t[nId]), MAX_NID>>
                               ELSE t)
        \* step 2: the bucket new_Pc is written with that root
        /\ With(mxx_sort(flipped, <<Pc, Pn>>, <<nId>>, tb2), LAMBDA sorted2 :
             \A k \in DOMAIN sorted2 :
               With(doublingStep2Local(sorted2, k), LAMBDA new :
                 \A j \in DOMAIN sorted2[k] :
                   With(sorted2[k][j], LAMBDA t :
                     /\ new[j][nId] = t[nId] /\ new[j][Pn] = t[Pn]
                     /\ new[j][Pc] # MAX_PID
                     /\ new[j][Pc] <= t[Pc]
                     /\ (t[nId] # MAX_NID /\ t[Pn] # MAX_PID) =>
                          new[j][Pc] = Min({RootOf(all, t[Pc]), t[Pc]})
                     /\ (t[nId] # MAX_NID /\ t[Pn] = MAX_PID) =>
                          new[j][Pc] = t[Pc]))))))

LayerOf(tuples, layer) == AsSeq([j \in DOMAIN tuples |-> tuples[j][layer]])

\* the tuples the constructor makes of the edges: (u, MAX_PID, v) for (u, v)
InitialTuples == Concat(convertEdgeListforCCL(edgeList))

\* a round of the loop has just ended
EndOfRound == iterCount > 0 /\ pc \in {"updatePn", "computed"}

C36_PrefixIsStable ==
  pc = "updatePn" =>
    \A r \in DOMAIN tupleVector :
      /\ distance_begin_mid[r] <= Len(tupleVector[r])
      /\ \A j \in 1..distance_begin_mid[r] : tupleVector[r][j][Pn] = MAX_PID

\* C34: in every step of the coloring engine and in filterEdgeList the
\* collectives match: all ranks of the communicator get the same value of
\* 'converged' and issue the same communicator-wide collectives, and the
\* collectives inside with_subset are issued by exactly the ranks of the
\* subset, by all of them in the same order
C34_CollectivesMatch ==
  /\ pc = "updatePc" =>
        \A tb \in TieBreaks :
          With(updatePcReturned(Active(tupleVector, distance_begin_mid), tb), LAMBDA ret :
            \A r \in DOMAIN ret : ret[r] = ret[1])
  /\ pc \in {"ccl", "updatePn", "updatePc", "doubling", "computed"} =>
        \A tb \in TieBreaks :
          Matched(AsSeq([r \in DOMAIN tupleVector |-> cclCollectives(r, tb)]))
  /\ pc = "returned" =>
        \A tb \in TieBreaks, garbage \in Garbage(edgeList) :
          Matched(AsSeq([r \in DOMAIN edgeList |-> filterCollectives(r, tb, garbage)]))

\* updatePc is about to run where a rank has no active tuple and the local
\* flags of the ranks that have some differ
C34_Witness ==
  /\ pc = "updatePc"
  /\ With(Active(tupleVector, distance_begin_mid), LAMBDA act :
       With(NonEmpty(act), LAMBDA sub :
         /\ Len(sub) >= 2
         /\ Len(sub) < Len(act)
         /\ \E tb \in TieBreaks :
              With(mxx_sort(Pick(act, sub), <<Pc, Pn>>, <<nId>>, tb), LAMBDA sorted :
                /\ \E k \in DOMAIN sub : convergedLocal(sorted, k)
                /\ \E k \in DOMAIN sub : ~convergedLocal(sorted, k))))

\* the final Pc of the nodes: the pairs <<node, Pc>> of the tuples
FinalPc(tv) == {<<Concat(tv)[j][nId], Concat(tv)[j][Pc]>> : j \in DOMAIN Concat(tv)}

\* C37: the final Pc of every node and the component count are those of the
\* engine with DOUBLING OFF and OPTIMIZATION naive on the same edge list and
\* the same ranks, whatever the settings of the run are
C37_SameForAllKnobs ==
  pc = "counted" =>
    With(cclNaive(Pick(edgeList, cclComm)), LAMBDA reference :
      /\ FinalPc(tupleVector) = FinalPc(reference)
      /\ componentCount = computeComponentCount(reference, "asc"))

\* C38: the final Pc of every node and the component count are those of the
\* execution on a single rank that holds all the edges, whatever the number
\* of ranks and the initial distribution of the edges are
C38_SameAsSingleRank ==
  pc = "counted" =>
    With(cclNaive(<<Concat(edgeList)>>), LAMBDA single :
      /\ FinalPc(tupleVector) = FinalPc(single)
      /\ componentCount = computeComponentCount(single, "asc"))

\* the endpoints of the edge list are dense ids: all below the number of
\* distinct endpoints of the input
DenseIds ==
  \A r \in DOMAIN edgeList : \A j \in DOMAIN edgeList[r] :
    /\ edgeList[r][j][src] < Cardinality(VerticesOf(inputEdges))
    /\ edgeList[r][j][dst] < Cardinality(VerticesOf(inputEdges))

\* C35: when the RunBFS decision is computed, when the BFS peeler is
\* constructed and when the coloring engine is constructed, the endpoints of
\* the edge list are dense ids < |V|, whatever the decision is
C35_CompactedBeforeDecision ==
  pc \in {"runBFSDecision", "bfs", "ccl"} => DenseIds

\* a round begins after a round with pointer doubling whose requests went
\* to several ranks: a rank that is not the first has a stable prefix and
\* active tuples behind it
C36_Witness ==
  /\ pc = "updatePn"
  /\ iterCount >= 2
  /\ DOUBLING = ON
  /\ Cardinality({r \in DOMAIN parentRequestTupleVector :
                    parentRequestTupleVector[r] # <<>>}) >= 2
  /\ \E r \in 2..NumRanks :
       0 < distance_begin_mid[r] /\ distance_begin_mid[r] < Len(tupleVector[r])

\* the tuples that are frozen: the stable prefixes of the ranks and, once
\* updatePc has run in a round, the active tuples it marked (Pn = MAX_PID)
Frozen ==
  With(Concat(Prefix(tupleVector, distance_begin_mid)), LAMBDA stable :
    With(Concat(Active(tupleVector, distance_begin_mid)), LAMBDA act :
      {stable[j] : j \in DOMAIN stable} \cup
      (IF pc \in {"doubling", "partition"}
       THEN {act[j] : j \in {i \in DOMAIN act : act[i][Pn] = MAX_PID}}
       ELSE {})))

\* C27: a partition that updatePc marks stable is frozen correctly: from
\* that moment on (before the pointer jump of the round, after it, and in
\* the stable prefix of later rounds) its Pc is the smallest vertex id of
\* its connected component, every tuple of a node occurring in it and every
\* tuple of a node of its component has this Pc, and when the loop has ended
\* no tuple has a node of the component and another Pc.
C27_StableIsFinal ==
  With(Concat(tupleVector), LAMBDA all :
    /\ \A t \in Frozen :
         /\ t[Pc] = MinOfComponent(t[nId], inputEdges)
         /\ \A j \in DOMAIN all :
              all[j][nId] \in ComponentOf(t[nId], inputEdges) => all[j][Pc] = t[Pc]
    /\ pc = "computed" =>
         \A j \in DOMAIN all : all[j][Pc] = MinOfComponent(all[j][nId], inputEdges))

\* updatePc has marked a partition stable in a round that has not converged,
\* on several ranks: a component is frozen while tuples of another component
\* are still active
C27_Witness ==
  /\ pc \in {"doubling", "partition"}
  /\ ~converged
  /\ NumRanks = MaxRanks
  /\ With(Concat(Active(tupleVector, distance_begin_mid)), LAMBDA act :
       /\ \E j \in DOMAIN act : act[j][Pn] = MAX_PID
       /\ \E j \in DOMAIN act : act[j][Pn] # MAX_PID)

TuplesOf(tuples, n) == Cardinality({j \in DOMAIN tuples : tuples[j][nId] = n})

\* C16: for a fixed input edge bag and a fixed p the result is the same in
\* every run, whatever order the distributed sorts give to tuples with
\* equal keys: when compute() has returned every node v has one tuple for
\* each input edge (u, v), each with the smallest id of the component of v
\* as Pc, and the count computeComponentCount() stores is the one count
\* that the tuples of the state give under every order of equal keys.
C16_SameResultInEveryRun ==
  [][/\ pc' = "computed" =>
          With(RealTuples(tupleVector'), LAMBDA t :
            /\ Len(t) = Len(Concat(tupleVector'))
            /\ \A v \in Vertices :
                 TuplesOf(t, v) = Cardinality({e \in InputEdgeList : e[dst] = v})
            /\ \A j \in DOMAIN t : t[j][Pc] = MinOfComponent(t[j][nId], inputEdges))
     /\ pc = "computed" =>
          \A tb \in TieBreaks : componentCount' = computeComponentCount(tupleVector, tb)]_vars

\* C17: compaction is idempotent: reduceVertexIds applied to the edge list
\* that reduceVertexIds has produced leaves both endpoints of every edge as
\* they are and reports the same |V|.
C17_CompactionIdempotent ==
  (pc = "reduced" /\ nVertices > 0) =>
    /\ \A j \in DOMAIN ReducedEdges : \A a \in {src, dst} :
         ReducedEdges[j][a] = ReducedEdges[j][a + 2]
    /\ globalSizeOfVector(uniqueVertexList) = nVertices

(***************************************************************************)
(* Claims about bfsSupport.                                               *)
(***************************************************************************)
\* C8: after runBFSIterations and filterEdgeList the distributed edge list
\* holds exactly the input edges whose source no BFS iteration visited, each
\* once as in the input, for every p, also when the edges of an unvisited
\* source straddle rank boundaries and when ranks get no unvisited vertex.
C8_FilterKeepsUnvisited ==
  pc = "filtered" =>
    /\ EdgeSet(edgeList) = {e \in InputEdgeList : e[src] \in UnVisited}
    /\ Len(Concat(edgeList)) =
         Cardinality({e \in InputEdgeList : e[src] \in UnVisited})

\* C9: every executed BFS iteration appends to countComponentSizes the
\* number of vertices of the connected component of the chosen source, and
\* takes exactly these vertices out of the unvisited sets of their owners.
C9_IterationVisitsComponent ==
  [][iteration' = iteration + 1 =>
       /\ countComponentSizes' =
            Append(countComponentSizes,
                   Cardinality(ComponentOf(srcPoint', inputEdges)))
       /\ ComponentOf(srcPoint', inputEdges) \subseteq UnVisited
       /\ unVisitedGlobal(unVisitedVertices', localDistVecSize') =
            AsSeq([r \in DOMAIN unVisitedVertices |->
                     unVisitedGlobal(unVisitedVertices, localDistVecSize)[r]
                       \ ComponentOf(srcPoint', inputEdges)])]_vars

\* a second iteration on four ranks has visited a component of three or
\* more vertices that several ranks own
C9_Witness ==
  /\ pc = "runBFSIterations"
  /\ iteration >= 2
  /\ NumRanks = 4
  /\ Len(countComponentSizes) = iteration
  /\ Last(countComponentSizes) >= 3
  /\ Last(countComponentSizes) = Cardinality(ComponentOf(srcPoint, inputEdges))

\* the connected components of the graph on the ids 0 .. vertexCount - 1
NumComponentsOfIds ==
  Cardinality({MinOfComponent(v, inputEdges) : v \in 0 .. (vertexCount - 1)})

\* C10: runBFSIterations(k) returns the number of iterations it executed:
\* i < k, nothing appended for i, when every unvisited set was empty before
\* iteration i, and k otherwise; the value is the number of entries appended.
C10_ReturnsIterationsExecuted ==
  pc \in {"returned", "filtered"} =>
    /\ noBFSIterationsExecuted = Len(countComponentSizes)
    /\ noBFSIterationsExecuted = Min({noIterations, NumComponentsOfIds})
    /\ noBFSIterationsExecuted < noIterations => UnVisited = {}
    /\ UnVisited # {} => noBFSIterationsExecuted = noIterations

\* the call has returned early on four ranks, after two or more iterations
C10_Witness ==
  /\ pc = "returned"
  /\ NumRanks = 4
  /\ noBFSIterationsExecuted >= 2
  /\ noBFSIterationsExecuted < noIterations
  /\ Len(countComponentSizes) = noBFSIterationsExecuted

\* the connected components of the ids that a BFS iteration has visited
VisitedComponents ==
  {ComponentOf(v, inputEdges) : v \in (0 .. (vertexCount - 1)) \ UnVisited}

\* C11: the unvisited state persists across the calls on one bfsSupport
\* object.  After any number of calls runBFSIterations(k, sizes) the
\* sequence of component sizes and the unvisited sets are those of one call
\* runBFSIterations(n, sizes), n the number of entries of sizes, and
\* filterEdgeList gives a result that it gives after that one call; no
\* component is traversed twice: the visited ids are exactly as many whole
\* components as sizes has entries.
C11_CallsCompose ==
  pc \in {"returned", "filtered"} =>
    With(runBFSIterations(A, localDistVecSize, constructed(localDistVecSize),
                          Len(countComponentSizes)), LAMBDA oneCall :
      /\ <<unVisitedVertices, countComponentSizes>> \in oneCall
      /\ pc = "filtered" =>
           \E s \in oneCall, tb \in TieBreaks, garbage \in 0..MaxVertex :
             edgeList = filterEdgeList(DistributedEdges(inputEdges, NumRanks, "dealt"),
                                       s[1], localDistVecSize, garbage, tb)
      /\ UNION VisitedComponents = (0 .. (vertexCount - 1)) \ UnVisited
      /\ Cardinality(VisitedComponents) = Len(countComponentSizes)
      /\ SumSeq(countComponentSizes) + Cardinality(UnVisited) = vertexCount)

\* three calls on four ranks: the last call, runBFSIterations(1), executed
\* one iteration, the calls before it two, vertices are left
C11_Witness ==
  /\ pc = "returned"
  /\ NumRanks = 4
  /\ noIterations = 1
  /\ noBFSIterationsExecuted = 1
  /\ Len(countComponentSizes) = 3
  /\ UnVisited # {}

\* the ids that the BFS iterations executed so far have visited
VisitedSoFar == (0 .. (vertexCount - 1)) \ UnVisited

\* C39: over all iterations on one bfsSupport object, whatever calls they
\* belong to: the vertices an iteration visits were visited by no iteration
\* before it, its source lies in no component that holds a visited vertex,
\* the iteration takes exactly the vertices it visits out of the unvisited
\* sets, and at every iteration boundary the recorded component sizes and
\* the sizes of the ranks' unvisited sets add up to |V|.
C39_IterationsAreDisjoint ==
  /\ [](pc \in {"runBFSIterations", "returned"} =>
          SumSeq(countComponentSizes)
            + SumSeq(AsSeq([r \in DOMAIN unVisitedVertices |->
                              Cardinality(unVisitedVertices[r])])) = vertexCount)
  /\ [][iteration' = iteration + 1 =>
          With(bfsTraversal(A, {srcPoint'}, {srcPoint'}, 1)[1], LAMBDA visited :
            /\ visited \cap VisitedSoFar = {}
            /\ \A v \in VisitedSoFar : srcPoint' \notin ComponentOf(v, inputEdges)
            /\ UnVisited' = UnVisited \ visited
            /\ visited # {})]_vars

\* a later call on four ranks is at the boundary after its first iteration:
\* three iterations have been executed on the object, one of them over a
\* component of several vertices, and vertices are left
C39_Witness ==
  /\ pc = "runBFSIterations"
  /\ NumRanks = 4
  /\ iteration = 1
  /\ Len(countComponentSizes) = 3
  /\ \E k \in DOMAIN countComponentSizes : countComponentSizes[k] >= 2
  /\ UnVisited # {}
  /\ Cardinality(VisitedSoFar) = SumSeq(countComponentSizes)

\* the sources a call of getSource can return in this state
Sources == getSource(unVisitedVertices, localDistVecSize)

\* the ranks whose set of unvisited local ids is not empty
RanksWithUnvisited == {r \in DOMAIN unVisitedVertices : unVisitedVertices[r] # {}}

\* C28: getSource returns MAX exactly when the unvisited set of every rank
\* is empty; otherwise every rank with unvisited ids offers one of them (the
\* first of its unordered set) plus its base offset, and the source chosen by
\* the all-reduce is an unvisited global id: one of the ids of the lowest
\* rank that has any, and each of them can be the one.
C28_SourceIsUnvisited ==
  pc = "runBFSIterations" =>
    /\ (MAX \in Sources) <=> (RanksWithUnvisited = {})
    /\ RanksWithUnvisited = {} => Sources = {MAX}
    /\ RanksWithUnvisited # {} =>
         With(Min(RanksWithUnvisited), LAMBDA first :
           /\ Sources \subseteq UnVisited
           /\ Sources = {x + SumSeq(SubSeq(localDistVecSize, 1, first - 1)) :
                           x \in unVisitedVertices[first]})

\* C28 as stated: the source is the smallest global id among all unvisited
\* vertices
C28_SourceIsSmallestUnvisited ==
  pc = "runBFSIterations" =>
    /\ (MAX \in Sources) <=> (RanksWithUnvisited = {})
    /\ RanksWithUnvisited # {} => Sources = {Min(UnVisited)}

\* a BFS iteration on four ranks has left ranks without unvisited ids, and
\* the lowest rank that has any has more than one
C28_Witness ==
  /\ pc = "runBFSIterations"
  /\ NumRanks = 4
  /\ iteration >= 1
  /\ RanksWithUnvisited # {}
  /\ Min(RanksWithUnvisited) > 1
  /\ Cardinality(unVisitedVertices[Min(RanksWithUnvisited)]) >= 2

\* C29: after filterEdgeList the retained edges are balanced over the ranks
\* of the communicator: the local edge counts of any two ranks differ by at
\* most one, also when ranks retained no edge before the rebalancing.
C29_BalancedOverCommunicator ==
  pc = "filtered" =>
    \A r, q \in DOMAIN edgeList : Len(edgeList[r]) - Len(edgeList[q]) <= 1

\* checkEdgeBidirectionality as a relation of sets: every edge of the
\* distributed edge list has its flip in the list
checkEdgeBidirectionality(edges) ==
  \A e \in EdgeSet(edges) : <<e[dst], e[src]>> \in EdgeSet(edges)

\* C12: the input edge list has (v,u) for every (u,v); after
\* reduceVertexIds, and after a filterEdgeList that follows completed BFS
\* iterations, the distributed edge list has (v,u) for every (u,v) it has.
C12_StaysBidirectional ==
  /\ pc = "bfs" => checkEdgeBidirectionality(edgeList)
  /\ pc \in {"reduced", "filtered"} => checkEdgeBidirectionality(edgeList)

(***************************************************************************)
(* Claims about the hash of the vertex ids.                                *)
(***************************************************************************)
\* C18: permuteVectorIds relabels the vertices by a bijection of the 64-bit
\* id space, for the id type int64_t of the driver: hash_64 maps the two
\* different ids of an edge to different ids, and hash_64i gives back the
\* id that hash_64 was applied to.
C18_HashIsBijection ==
  /\ pc = "hashed" =>
       \A r \in DOMAIN edgeList : \A j \in DOMAIN edgeList[r] :
         edgeList[r][j][src] # edgeList[r][j][dst]
  /\ pc = "inverted" =>
       \A r \in DOMAIN edgeList : \A j \in DOMAIN edgeList[r] :
         edgeList[r][j] \in inputEdges

(***************************************************************************)
(* Claims about the driver.                                                *)
(***************************************************************************)
\* C19: runBFSDecision returns the same boolean on every rank of the
\* communicator, and that boolean is true iff the statistic D that rank 0
\* has computed is below 0.05.
C19_SameDecisionOnEveryRank ==
  gbDecision # <<>> =>
    /\ Len(gbDecision) = NumRanks
    /\ \A r \in DOMAIN gbDecision :
         /\ (gbDecision[r] = 1) <=> (gbDecision[1] = 1)
         /\ (gbDecision[r] = 1) <=> (statisticVal < 5)
    /\ runBFS <=> (statisticVal < 5)

\* on four ranks the statistic of rank 0 was below 0.05 and the decision is
\* to run the BFS
C19_Witness ==
  /\ pc = "reduce"
  /\ NumRanks = 4
  /\ statisticVal = 4
  /\ runBFS
  /\ gbDecision = <<1, 1, 1, 1>>

\* the number of distinct dst values among the edges of source v
DegreeOf(edges, v) == Cardinality({e[dst] : e \in {x \in edges : x[src] = v}})

\* the pieces of the sources: <<r, v>> for every rank r that holds an edge
\* of source v
Pieces(edges) ==
  UNION {{<<r, edges[r][j][src]>> : j \in DOMAIN edges[r]} : r \in DOMAIN edges}

\* the number of distinct dst values among the edges of a piece
PieceDegree(edges, piece) ==
  DegreeOf({edges[piece[1]][j] : j \in DOMAIN edges[piece[1]]}, piece[2])

\* the counts that were reduced to rank 0: 1 was added to each
ReducedCounts(counts) == AsSeq([d \in DOMAIN counts |-> counts[d] - 1])

\* C30: the degree histogram that runBFSDecision reduces to rank 0 counts
\* every rank's local bucket of a source once, at the number of distinct
\* dst values among the edges of the source on that rank, and its length is
\* the greatest of these numbers: a source whose edges are on one rank is
\* counted once at its degree, a source whose edges straddle ranks once per
\* rank with the partial degree.
C30_HistogramCountsLocalBuckets ==
  [][pc = "runBFSDecision" =>
       With(ReducedCounts(globalDegreeCounts'), LAMBDA counts :
         /\ Len(counts) = Max({PieceDegree(edgeList', x) : x \in Pieces(edgeList')})
         /\ \A d \in DOMAIN counts :
              counts[d] = Cardinality({x \in Pieces(edgeList') :
                                        PieceDegree(edgeList', x) = d}))]_vars

\* C30 as stated: every distinct source vertex is counted exactly once, at
\* the number of distinct dst values among all its edges, also when its
\* edges straddle a rank boundary after the sort
C30_HistogramCountsVertices ==
  [][pc = "runBFSDecision" =>
       With(EdgeSet(edgeList), LAMBDA edges :
         With(ReducedCounts(globalDegreeCounts'), LAMBDA counts :
           /\ Len(counts) = Max({DegreeOf(edges, e[src]) : e \in edges})
           /\ \A d \in DOMAIN counts :
                counts[d] = Cardinality({v \in {e[src] : e \in edges} :
                                          DegreeOf(edges, v) = d})))]_vars

\* runBFSDecision has run on several ranks on an edge list that holds an
\* edge twice: the edges of a source straddle a rank boundary after the
\* sort, and the histogram has more than one degree
C30_Witness ==
  /\ pc \in {"reduce", "coloring"}
  /\ NumRanks = MaxRanks
  /\ Len(globalDegreeCounts) >= 2
  /\ Len(Concat(edgeList)) > Cardinality(EdgeSet(edgeList))
  /\ \E r \in 1..(NumRanks - 1) :
       /\ edgeList[r] # <<>>
       /\ edgeList[r + 1] # <<>>
       /\ Last(edgeList[r])[src] = edgeList[r + 1][1][src]

\* C31: runBFSDecision only reorders the edge list: the edges after the call
\* are the edges before it, each as often, also the edges that occur more
\* than once.
C31_OnlyReorders ==
  [][pc = "runBFSDecision" => SameTuples(Concat(edgeList), Concat(edgeList'))]_vars

\* the distinct keys of the whole distributed sequence
DistinctKeys == {Concat(tupleVector)[j][Pc] : j \in DOMAIN Concat(tupleVector)}

\* C32: mxx::uniqueCount on a globally sorted distributed sequence returns on
\* every rank the number of distinct keys of the whole sequence, for every
\* distribution: a run of equal keys that spans ranks is counted once, and
\* ranks with an empty local range do not change the count.
C32_UniqueCountIsDistinctKeys ==
  pc = "uniqueCounted" => componentCount = Cardinality(DistinctKeys)

\* a run of equal keys spans three ranks and is all the middle one holds, a
\* rank is empty, and there is another key
C32_Witness ==
  /\ pc = "uniqueCounted"
  /\ Len(tupleVector) = MaxRanks + 1
  /\ componentCount = 2
  /\ \E r \in DOMAIN tupleVector : tupleVector[r] = <<>>
  /\ \E a, b, c \in DOMAIN tupleVector :
       /\ a < b /\ b < c
       /\ tupleVector[a] # <<>> /\ tupleVector[b] # <<>> /\ tupleVector[c] # <<>>
       /\ \A j \in DOMAIN tupleVector[b] : tupleVector[b][j][Pc] = Last(tupleVector[a])[Pc]
       /\ tupleVector[c][1][Pc] = Last(tupleVector[a])[Pc]

\* C33: when there are more distinct Pc values than the accumulator of the
\* unique count can represent, the count operation does not return: whenever
\* it has returned a count, the distinct values were at most 2^SizeBits - 1
\* and the count is their number, never a wrapped one.
C33_OverflowIsReported ==
  pc = "uniqueCounted" =>
    /\ Cardinality(DistinctKeys) <= 2 ^ SizeBits - 1
    /\ componentCount = Cardinality(DistinctKeys)

\* the command line lacks a required option: --input, --pointerDouble, or
\* --file / --scale for the chosen input
requiredOptionMissing(line) ==
  \/ ~foundOption(line, "input")
  \/ ~foundOption(line, "pointerDouble")
  \/ optionValue(line, "input") \in {"generic", "dbg"} /\ ~foundOption(line, "file")
  \/ optionValue(line, "input") = "kronecker" /\ ~foundOption(line, "scale")

\* the value of --input is not one of the producers of main
unrecognisedInput(line) ==
  /\ foundOption(line, "input")
  /\ optionValue(line, "input") \notin {"generic", "dbg", "kronecker"}

\* the value of --scale, read for the kronecker input, starts with no digit
scaleNotANumber(line) ==
  /\ optionValue(line, "input") = "kronecker"
  /\ foundOption(line, "scale")
  /\ leadingDigits(optionValue(line, "scale")) = <<>>

\* nothing of "COMPUTE CONNECTIVITY" has run
NothingComputed ==
  /\ edgeList = Empty(Len(edgeList))
  /\ DriverWaits
  /\ componentCount = -1
  /\ iterCount = 0
  /\ tupleVector = Empty(Len(tupleVector))

C3_DriverCountsComponents ==
  pc = "done" =>
    /\ countComponents = noBFSIterationsExecuted
                           + (IF cclComm = <<>> THEN 0 ELSE componentCount)
    /\ countComponents = NumComponents(inputEdges)

====
